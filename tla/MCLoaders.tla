----------------------------- MODULE MCLoaders -----------------------------
(* Both loaders on the files of MCSmartLoader.                             *)
EXTENDS MCSmartLoader, Loaders

MCLayouts == AlignedLayouts \cup LongUnalignedLayouts \cup EntryLayouts
=============================================================================
