------------------------------ MODULE MCLayout ------------------------------
(* Torrents with up to three files for TLC.                                *)
EXTENDS Layout

(* Three files in the base directory.                                      *)
MCFlat == <<<<"a">>, <<"b">>, <<"c">>>>

(* Two files in one subdirectory.                                          *)
MCNested == <<<<"d", "a">>, <<"d", "b">>>>

=============================================================================
