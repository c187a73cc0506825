------------------------- MODULE PageMappedStorage --------------------------
(***************************************************************************)
(* The page layout clockwork-convert computes for a model                  *)
(* (src/clockwork-convert/tvm_abstract_model.cpp): pack() packs storage    *)
(* locations into pages, PageMappedStorage::calculate() counts the pages   *)
(* the workspace allocations of an operation need, and makeModelDef()      *)
(* places each workspace allocation on a page.                             *)
(*                                                                         *)
(* makeModelDef() then gives every storage location its page, offset in   *)
(* the page and offset from the start of the model's memory, describes    *)
(* the weights pages, and copies each weight to its offset in the weights *)
(* blob.                                                                   *)
(*                                                                         *)
(* A storage location is its index in model.storage_locations and its size *)
(* (StorageLocation::Size()); a page is the sequence of locations it holds.*)
(* A weight is the index of its storage location, its tensor the size of   *)
(* that location (TVM gives every parameter a storage id of its own). The  *)
(* state is only the input; the algorithms are operators and the           *)
(* properties compare them with reference definitions.                     *)
(***************************************************************************)
EXTENDS Naturals, Sequences, SequencesExt, FiniteSetsExt, TLC

CONSTANTS PageSize,   \* page_size
          MaxLocs,    \* bound: storage locations in one input
          MaxOps,     \* bound: operations in one input
          MaxAllocs,  \* bound: workspace allocations of one operation
          MaxSize,    \* bound: the largest location size
          MaxAllocSize, \* bound: the largest workspace allocation size
          MaxLayoutLocs, \* bound: storage locations of a model laid out whole
          FuncNames,  \* the func_names operations may have
          MaxFuncOps  \* bound: operations whose func_names are numbered

VARIABLES locs,       \* the sizes of model.storage_locations
          weights,    \* the storage locations of model.weights
          ops,        \* each operation's `allocs`
          funcs       \* each operation's func_name

vars == <<locs, weights, ops, funcs>>

SeqsUpTo(n, S) == UNION {[1..k -> S] : k \in 0..n}

\* Page::Size(): the sum of the sizes of the locations it holds
PageLoad(p) == FoldLeft(LAMBDA acc, l : acc + l.size, 0, p)

\* the locations of ls whose indices are in ids, in the order of ls
Locations(ls, ids) ==
  SelectSeq([i \in DOMAIN ls |-> [id |-> i, size |-> ls[i]]],
            LAMBDA l : l.id \in ids)

----------------------------------------------------------------------------
(* pack(): sort the locations by decreasing size; put each into the first  *)
(* page it fits in, opening a new page when none does; re-sort the pages  *)
(* by decreasing size after every location. std::sort is not stable: the  *)
(* order TLC's SortSeq gives equal elements is one of the orders it may.   *)

PlaceKeepingOrder(pages, x) ==
  LET fit == {i \in 1..Len(pages) : PageLoad(pages[i]) + x.size <= PageSize} IN
  IF fit = {} THEN Append(pages, <<x>>)
  ELSE [pages EXCEPT ![Min(fit)] = Append(@, x)]

PlaceOpeningEmptyPage(pages, x) ==
  LET fit == {i \in 1..Len(pages) : PageLoad(pages[i]) + x.size <= PageSize}
      placed == IF fit = {} THEN Append(pages, <<>>)
                ELSE [pages EXCEPT ![Min(fit)] = Append(@, x)]
  IN SortSeq(placed, LAMBDA p, q : PageLoad(p) > PageLoad(q))

PlaceRejectingExactFit(pages, x) ==
  LET fit == {i \in 1..Len(pages) : PageLoad(pages[i]) + x.size < PageSize}
      placed == IF fit = {} THEN Append(pages, <<x>>)
                ELSE [pages EXCEPT ![Min(fit)] = Append(@, x)]
  IN SortSeq(placed, LAMBDA p, q : PageLoad(p) > PageLoad(q))

PlaceInPage(pages, x) ==
  LET fit == {i \in 1..Len(pages) : PageLoad(pages[i]) + x.size <= PageSize}
      placed == IF fit = {} THEN Append(pages, <<x>>)
                ELSE [pages EXCEPT ![Min(fit)] = Append(@, x)]
  IN SortSeq(placed, LAMBDA p, q : PageLoad(p) > PageLoad(q))

Pack(ls) ==
  FoldLeft(PlaceInPage, <<>>, SortSeq(ls, LAMBDA a, b : a.size > b.size))

----------------------------------------------------------------------------
(* calculate(): the workspace pages of one operation. An allocation that  *)
(* does not fit in the rest of the current page starts a new one; a last  *)
(* page holding something is counted too.                                  *)

CountStep(acc, alloc) ==
  IF acc.offset + alloc > PageSize
    THEN [pages |-> acc.pages + 1, offset |-> alloc]
  ELSE [pages |-> acc.pages, offset |-> acc.offset + alloc]

WorkspacePagesNoLastPage(allocs) ==
  FoldLeft(CountStep, [pages |-> 0, offset |-> 0], allocs).pages

WorkspacePages(allocs) ==
  LET end == FoldLeft(CountStep, [pages |-> 0, offset |-> 0], allocs) IN
  end.pages + (IF end.offset > 0 THEN 1 ELSE 0)

\* mapped.allocs: the most pages any one operation needs
MaxWorkspacePages(os) ==
  Max({WorkspacePages(os[i]) : i \in DOMAIN os} \cup {0})

\* makeModelDef(): the PageMappedWorkspaceAllocDef of each allocation of an
\* operation, its page counted from the first workspace-alloc page
RECURSIVE PlaceAllocs(_, _)
PlaceAllocs(allocs, cur) ==
  IF allocs = <<>> THEN <<>>
  ELSE LET a == Head(allocs)
           def == IF cur.offset + a > PageSize
                    THEN [page |-> cur.page + 1, page_offset |-> 0, size |-> a]
                  ELSE [page |-> cur.page, page_offset |-> cur.offset, size |-> a]
       IN <<def>> \o
          PlaceAllocs(Tail(allocs),
                      [page |-> def.page, offset |-> def.page_offset + a])

AllocDefs(allocs) == PlaceAllocs(allocs, [page |-> 0, offset |-> 0])

----------------------------------------------------------------------------
(* calculate() packs the weights' storage locations and the others apart; *)
(* makeModelDef() lays the pages out weights pages first.                  *)

\* weights_storage: model.weights is an unordered_map; pack() sorts it, so
\* its order only decides between locations of equal size
WeightsStorage(ls, ws) == Locations(ls, ws)

\* workspace_storage: the locations no weight uses, in model order
WorkspaceStorage(ls, ws) == Locations(ls, DOMAIN ls \ ws)

\* page i is mapped.weights[i] for i < mapped.weights.size(), then workspace
LayoutPages(ls, ws) ==
  Pack(WeightsStorage(ls, ws)) \o Pack(WorkspaceStorage(ls, ws))

\* one location of the page: a PagePointer{page, current_page_offset,
\* current_offset}, after the CHECK that no earlier page holds it
PointerStep(acc, l) ==
  [acc EXCEPT !.ptr = (l.id :> [page |-> acc.page, page_offset |-> acc.inPage,
                                base_offset |-> acc.offset]) @@ @,
              !.dup = @ \/ l.id \in DOMAIN acc.ptr,
              !.inPage = @ + l.size,
              !.offset = @ + l.size]

\* one page: current_page_offset restarts at 0, current_offset carries on
PageStep(acc, page) ==
  LET done == FoldLeft(PointerStep, [acc EXCEPT !.inPage = 0], page) IN
  [done EXCEPT !.page = @ + 1]

\* storage_location_pointers, and whether the CHECK failed
StoragePointers(ls, ws) ==
  FoldLeft(PageStep,
           [ptr |-> <<>>, dup |-> FALSE, page |-> 0, inPage |-> 0, offset |-> 0],
           LayoutPages(ls, ws))

WeightsPageDefsBySize(ls, ws) ==
  LET wp == Pack(WeightsStorage(ls, ws)) IN
  [i \in DOMAIN wp |-> [base_offset |-> (i - 1) * PageSize,
                        size |-> PageLoad(wp[i])]]

\* output.weights_pages: PageDef{current_offset, page->Size()}, current_offset
\* advancing by each page's size
WeightsPageDefs(ls, ws) ==
  LET wp == Pack(WeightsStorage(ls, ws)) IN
  [i \in DOMAIN wp |->
     [base_offset |-> FoldLeft(+, 0, [j \in 1..(i - 1) |-> PageLoad(wp[j])]),
      size |-> PageLoad(wp[i])]]

\* output.weights_memory: the sum of the weights' tensor sizes
WeightsMemory(ls, ws) == FoldFunctionOnSet(+, 0, ls, ws)

\* the memcpy of each weight: the blob offset of its storage location and
\* the weight's size, which the CHECK has compared with its tensor's
WeightCopies(ls, ws) ==
  LET ptr == StoragePointers(ls, ws).ptr IN
  [w \in ws |-> [offset |-> ptr[w].base_offset, size |-> ls[w]]]

----------------------------------------------------------------------------
(* makeModelDef(): the so_functions map numbers each func_name by its     *)
(* first use and lists it in output.so_functions; each PageMappedOpDef's  *)
(* so_function is the number of its operation's func_name.                 *)

SoFunctionStepAfterPush(acc, f) ==
  IF f \in DOMAIN acc.map THEN acc
  ELSE [map |-> (f :> Len(acc.list) + 1) @@ acc.map, list |-> Append(acc.list, f)]

\* so_functions[f] = output.so_functions.size(); then push_back(f)
SoFunctionStep(acc, f) ==
  IF f \in DOMAIN acc.map THEN acc
  ELSE [map |-> (f :> Len(acc.list)) @@ acc.map, list |-> Append(acc.list, f)]

SoFunctions(fs) == FoldLeft(SoFunctionStep, [map |-> <<>>, list |-> <<>>], fs)

\* opdef.so_function of each operation
OpSoFunctions(fs) == [i \in DOMAIN fs |-> SoFunctions(fs).map[fs[i]]]

----------------------------------------------------------------------------
\* pack() and calculate() are independent functions of the model: each
\* input of one is checked beside the empty input of the other; a whole
\* model's layout is checked on fewer locations, any of them weights
Init ==
  \/ /\ locs \in SeqsUpTo(MaxLocs, 1..MaxSize)
     /\ weights = {}
     /\ ops = <<>>
     /\ funcs = <<>>
  \/ /\ locs = <<>>
     /\ weights = {}
     /\ ops \in SeqsUpTo(MaxOps, SeqsUpTo(MaxAllocs, 1..MaxAllocSize))
     /\ funcs = <<>>
  \/ /\ locs \in SeqsUpTo(MaxLayoutLocs, 1..MaxSize)
     /\ weights \in SUBSET DOMAIN locs
     /\ ops = <<>>
     /\ funcs = <<>>
  \/ /\ locs = <<>>
     /\ weights = {}
     /\ ops = <<>>
     /\ funcs \in SeqsUpTo(MaxFuncOps, FuncNames)

\* the conversion runs once on its input; nothing changes afterwards
Next == UNCHANGED vars

Spec == Init /\ [][Next]_vars

----------------------------------------------------------------------------
\* The reference: best-fit decreasing, each location (largest first) put in
\* the page with the least space left among those it fits in.
BestFitStep(loads, x) ==
  LET fit == {i \in DOMAIN loads : loads[i] + x <= PageSize} IN
  IF fit = {} THEN Append(loads, x)
  ELSE LET best == CHOOSE i \in fit : \A j \in fit : loads[i] >= loads[j]
       IN [loads EXCEPT ![best] = @ + x]

BestFitLoads(ls) ==
  FoldLeft(BestFitStep, <<>>, SortSeq(ls, LAMBDA a, b : a > b))

Descending(s) == SortSeq(s, LAMBDA a, b : a > b)

\* the two lists calculate() packs
Packed == {WeightsStorage(locs, weights), WorkspaceStorage(locs, weights)}

Sizes(ls) == [i \in DOMAIN ls |-> ls[i].size]

\* pack() holds every location on exactly one page: the pages together
\* hold the locations given, each once (makeModelDef CHECKs that no
\* location is assigned to two pages).
PackPartitions ==
  \A ls \in Packed :
    LET placed == FoldLeft(\o, <<>>, Pack(ls)) IN
    Len(placed) = Len(ls) /\ ToSet(placed) = ToSet(ls)

\* "Pack each item into page that minimizes remaining space": re-sorting
\* the pages by size and taking the first that fits is best fit, page for
\* page the same loads as the reference.
PackIsBestFit ==
  \A ls \in Packed :
    Descending([i \in DOMAIN Pack(ls) |-> PageLoad(Pack(ls)[i])])
      = Descending(BestFitLoads(Sizes(ls)))

\* No two pages pack() returns could be merged into one page: a page is
\* only opened for a location that fits in no page opened before.
PagesNotMergeable ==
  \A ls \in Packed :
    LET pages == Pack(ls) IN
    \A i, j \in DOMAIN pages :
      i # j => PageLoad(pages[i]) + PageLoad(pages[j]) > PageSize

\* Every workspace allocation makeModelDef() places lies on one of the
\* mapped.allocs pages calculate() counted: the two loops must agree on
\* when a new page starts and on whether the last one counts.
AllocsWithinCountedPages ==
  \A o \in DOMAIN ops :
    \A k \in DOMAIN ops[o] : AllocDefs(ops[o])[k].page < MaxWorkspacePages(ops)

\* The weights blob makeModelDef() fills is the weights pages laid end to
\* end: every weight is copied inside the weights_memory bytes malloc'd,
\* no two copies overlap, and each lands at its page's PageDef base_offset
\* plus its page_offset, inside that page, which is where the worker reads
\* it from when it loads the page. The pointer loop, the PageDef loop and
\* the sum of tensor sizes must agree.
WeightsLandOnTheirPages ==
  LET ptr == StoragePointers(locs, weights).ptr
      copies == WeightCopies(locs, weights)
      defs == WeightsPageDefs(locs, weights)
  IN /\ \A w \in weights :
          /\ copies[w].offset + copies[w].size <= WeightsMemory(locs, weights)
          /\ ptr[w].page + 1 \in DOMAIN defs
          /\ copies[w].offset = defs[ptr[w].page + 1].base_offset + ptr[w].page_offset
          /\ ptr[w].page_offset + copies[w].size <= defs[ptr[w].page + 1].size
     /\ \A v, w \in weights :
          v # w => \/ copies[v].offset + copies[v].size <= copies[w].offset
                  \/ copies[w].offset + copies[w].size <= copies[v].offset

\* The worker calls op i's kernel by looking up opdef.so_function in the
\* so_functions list: that entry is op i's own func_name, and the list
\* holds every func_name the model uses exactly once.
SoFunctionsNumbered ==
  LET out == SoFunctions(funcs).list
      idx == OpSoFunctions(funcs)
  IN /\ IsInjective(out) /\ ToSet(out) = ToSet(funcs)
     /\ \A i \in DOMAIN funcs : idx[i] + 1 \in DOMAIN out /\ out[idx[i] + 1] = funcs[i]

\* Every storage location and every workspace allocation lies within its
\* page: page_offset + size never passes page_size, so nothing placed on a
\* page runs into the next one.
PlacedWithinPage ==
  /\ \A l \in DOMAIN locs :
       StoragePointers(locs, weights).ptr[l].page_offset + locs[l] <= PageSize
  /\ \A o \in DOMAIN ops :
       \A k \in DOMAIN ops[o] :
         AllocDefs(ops[o])[k].page_offset + AllocDefs(ops[o])[k].size <= PageSize
=============================================================================
