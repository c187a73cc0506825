------------------------ MODULE MCPageMappedStorage -------------------------
EXTENDS PageMappedStorage
=============================================================================
