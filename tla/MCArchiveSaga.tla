--------------------------- MODULE MCArchiveSaga ---------------------------
(* Small instances of ArchiveSaga: object-graph (paged) and situation,     *)
(* exported and purged in opposite orders as in shared-kernel/lifecycle.ts. *)
EXTENDS ArchiveSaga, TLC

MCServices    == {"objects", "situation"}
MCExportOrder == <<"objects", "situation">>
MCPurgeOrder  == <<"situation", "objects">>
MCRow         == {<<"objects", 1>>, <<"objects", 2>>, <<"situation", 1>>}
MCFewRow      == {<<"objects", 1>>, <<"situation", 1>>}
MCOneRow      == {<<"objects", 1>>}
MCPaged       == {"objects"}
MCChecked     == {"objects"}
MCGuarded     == {"situation"}
MCTickSymmetry == Permutations(Ticks)
=============================================================================
