----------------------- MODULE ModelDefSerialization ------------------------
(***************************************************************************)
(* The binary form of the model definitions (src/include/clockwork/        *)
(* modeldef.h). Each struct declares with PODS_SERIALIZABLE(version, ...)   *)
(* the fields that are written, in order; pods::BinaryDeserializer::load   *)
(* reads them back, in the same order, into an existing object, so a field *)
(* the list leaves out keeps whatever the object held before.              *)
(*                                                                         *)
(* A struct's list is a schema here; Encode writes a value as a sequence   *)
(* of tokens following it (an integer is one token, a vector its length    *)
(* then its elements, a string one token standing for its length and       *)
(* bytes, a struct its version then its listed fields), and Decode reads   *)
(* it back field by field into the prior object.                           *)
(***************************************************************************)
EXTENDS Naturals, Sequences, SequencesExt

CONSTANTS Vals,      \* values the integer members of a definition take
          ElemVals,  \* values the integer members of its ops, tensors, pages take
          Garbage,   \* values an uninitialized integer field may hold
          FuncNames  \* so_functions / cuda_functions names

VARIABLES md,        \* the ModelDef that is written
          mdPrior,   \* the ModelDef object ReadFrom() loads into
          pmd,       \* the PageMappedModelDef that is written
          pmdPrior   \* the PageMappedModelDef object ReadFrom() loads into

vars == <<md, mdPrior, pmd, pmdPrior>>

----------------------------------------------------------------------------
(* PODS types and the field lists of modeldef.h                            *)

Num == [k |-> "num"]
Str == [k |-> "str"]
Vec(t) == [k |-> "vec", elem |-> t]
Struct(fs) == [k |-> "struct", version |-> 1, fields |-> fs]

DLTensorDefT ==
  Struct(<<<<"offset", Num>>, <<"size", Num>>, <<"shape", Vec(Num)>>>>)

WorkspaceAllocDefT == Struct(<<<<"offset", Num>>, <<"size", Num>>>>)

OpDefT ==
  Struct(<<<<"inputs", Vec(DLTensorDefT)>>, <<"so_function", Num>>,
           <<"cuda_functions", Vec(Num)>>,
           <<"workspace_allocs", Vec(WorkspaceAllocDefT)>>>>)

ModelDefT ==
  Struct(<<<<"total_memory", Num>>, <<"weights_memory", Num>>,
           <<"so_functions", Vec(Str)>>, <<"cuda_functions", Vec(Str)>>,
           <<"ops", Vec(OpDefT)>>, <<"inputs", Vec(DLTensorDefT)>>,
           <<"outputs", Vec(DLTensorDefT)>>>>)

PageMappedDLTensorDefT ==
  Struct(<<<<"base_offset", Num>>, <<"page", Num>>, <<"page_offset", Num>>,
           <<"size", Num>>, <<"shape", Vec(Num)>>>>)

PageMappedWorkspaceAllocDefT ==
  Struct(<<<<"page", Num>>, <<"page_offset", Num>>, <<"size", Num>>>>)

PageMappedOpDefT ==
  Struct(<<<<"inputs", Vec(PageMappedDLTensorDefT)>>, <<"so_function", Num>>,
           <<"cuda_functions", Vec(Num)>>,
           <<"workspace_allocs", Vec(PageMappedWorkspaceAllocDefT)>>>>)

PageDefT == Struct(<<<<"base_offset", Num>>, <<"size", Num>>>>)

PageMappedModelDefTWithoutTotalPages ==
  Struct(<<<<"paged_required_memory", Num>>, <<"minimum_required_memory", Num>>,
           <<"weights_memory", Num>>, <<"so_functions", Vec(Str)>>,
           <<"cuda_functions", Vec(Str)>>, <<"ops", Vec(PageMappedOpDefT)>>,
           <<"inputs", Vec(PageMappedDLTensorDefT)>>,
           <<"outputs", Vec(PageMappedDLTensorDefT)>>,
           <<"configured_page_size", Num>>, <<"weights_pages", Vec(PageDefT)>>>>)

PageMappedModelDefT ==
  Struct(<<<<"paged_required_memory", Num>>, <<"minimum_required_memory", Num>>,
           <<"weights_memory", Num>>, <<"so_functions", Vec(Str)>>,
           <<"cuda_functions", Vec(Str)>>, <<"ops", Vec(PageMappedOpDefT)>>,
           <<"inputs", Vec(PageMappedDLTensorDefT)>>,
           <<"outputs", Vec(PageMappedDLTensorDefT)>>,
           <<"total_pages", Num>>, <<"configured_page_size", Num>>,
           <<"weights_pages", Vec(PageDefT)>>>>)

----------------------------------------------------------------------------
(* pods::BinarySerializer::save and pods::BinaryDeserializer::load         *)

RECURSIVE Encode(_, _)
Encode(t, v) ==
  CASE t.k \in {"num", "str"} -> <<v>>
    [] t.k = "vec" ->
         <<Len(v)>> \o FoldLeft(LAMBDA acc, x : acc \o Encode(t.elem, x), <<>>, v)
    [] t.k = "struct" ->
         <<t.version>> \o
           FoldLeft(LAMBDA acc, f : acc \o Encode(f[2], v[f[1]]), <<>>, t.fields)

\* a vector's elements are loaded into default-constructed objects
Fresh(t) ==
  IF t.k = "struct" THEN [n \in {t.fields[i][1] : i \in DOMAIN t.fields} |-> 0]
  ELSE 0

\* Decode(t, st, pos, prior): the value read from st at pos into an object
\* holding prior, and the position after it
RECURSIVE Decode(_, _, _, _), DecodeElems(_, _, _, _), DecodeFields(_, _, _, _)
Decode(t, st, pos, prior) ==
  CASE t.k \in {"num", "str"} -> [val |-> st[pos], pos |-> pos + 1]
    [] t.k = "vec" -> DecodeElems(t.elem, st, pos + 1, st[pos])
    [] t.k = "struct" -> DecodeFields(t.fields, st, pos + 1, prior)

DecodeElems(t, st, pos, n) ==
  IF n = 0 THEN [val |-> <<>>, pos |-> pos]
  ELSE LET h == Decode(t, st, pos, Fresh(t))
           r == DecodeElems(t, st, h.pos, n - 1)
       IN [val |-> <<h.val>> \o r.val, pos |-> r.pos]

DecodeFields(fs, st, pos, acc) ==
  IF fs = <<>> THEN [val |-> acc, pos |-> pos]
  ELSE LET f == Head(fs)
           h == Decode(f[2], st, pos, acc[f[1]])
       IN DecodeFields(Tail(fs), st, h.pos, [acc EXCEPT ![f[1]] = h.val])

\* ModelDef::ReadFrom / PageMappedModelDef::ReadFrom: load `data` into `def`
\* (the stream is one this build wrote, so load returns NoError and the
\* CHECK passes)
ReadFrom(t, data, def) == Decode(t, data, 1, def).val

----------------------------------------------------------------------------
(* The definitions written, from small sets of shapes and values.          *)

Opt(S) == {<<>>} \cup {<<x>> : x \in S}

DLTensorDefs == [offset : ElemVals, size : ElemVals, shape : Opt(ElemVals)]
OpDefs == [inputs : {<<>>}, so_function : ElemVals, cuda_functions : {<<>>},
           workspace_allocs : Opt([offset : ElemVals, size : ElemVals])]

\* struct ModelDef's members: its three sizes and its vectors
ModelDefs ==
  [total_memory : Vals, weights_memory : Vals, workspace_memory : Vals,
   so_functions : Opt(FuncNames), cuda_functions : {<<>>},
   ops : Opt(OpDefs), inputs : {<<>>}, outputs : Opt(DLTensorDefs)]

\* `ModelDef def;`: integer members uninitialized, vectors empty
ModelDefPriors ==
  [total_memory : Garbage, weights_memory : Garbage, workspace_memory : Garbage,
   so_functions : {<<>>}, cuda_functions : {<<>>}, ops : {<<>>},
   inputs : {<<>>}, outputs : {<<>>}]

PMTensorDefs ==
  [base_offset : ElemVals, page : ElemVals, page_offset : ElemVals, size : ElemVals,
   shape : Opt(ElemVals)]
PMOpDefs ==
  [inputs : Opt(PMTensorDefs), so_function : ElemVals, cuda_functions : {<<>>},
   workspace_allocs : Opt([page : ElemVals, page_offset : ElemVals, size : ElemVals])]

\* struct PageMappedModelDef's members
PageMappedModelDefs ==
  [paged_required_memory : Vals, minimum_required_memory : Vals,
   weights_memory : Vals, so_functions : Opt(FuncNames),
   cuda_functions : {<<>>}, ops : Opt(PMOpDefs), inputs : {<<>>},
   outputs : {<<>>}, total_pages : Vals, configured_page_size : Vals,
   weights_pages : Opt([base_offset : ElemVals, size : ElemVals])]

PageMappedModelDefPriors ==
  [paged_required_memory : Garbage, minimum_required_memory : Garbage,
   weights_memory : Garbage, so_functions : {<<>>}, cuda_functions : {<<>>},
   ops : {<<>>}, inputs : {<<>>}, outputs : {<<>>}, total_pages : Garbage,
   configured_page_size : Garbage, weights_pages : {<<>>}]

Init ==
  /\ md \in ModelDefs /\ mdPrior \in ModelDefPriors
  /\ pmd \in PageMappedModelDefs /\ pmdPrior \in PageMappedModelDefPriors

\* a definition is written once and read once; nothing changes afterwards
Next == UNCHANGED vars

Spec == Init /\ [][Next]_vars

----------------------------------------------------------------------------
\* A PageMappedModelDef written by clockwork-convert and loaded by
\* PageMappedModelDef::ReadFrom into a fresh object is the definition that
\* was written, every field and every nested op, tensor and page included.
PageMappedRoundTrip == ReadFrom(PageMappedModelDefT, Encode(PageMappedModelDefT, pmd), pmdPrior) = pmd

\* spec.md section 8: serializing and deserializing a ModelDef is a pure round
\* trip for all fields.
ModelDefRoundTrip == ReadFrom(ModelDefT, Encode(ModelDefT, md), mdPrior) = md
=============================================================================
