------------------------------ MODULE MCFrontEnds ------------------------------
(***************************************************************************)
(* A root with a directory, a file and a hidden file whose name is no      *)
(* text, and in the directory an artifact that may be missing.             *)
(***************************************************************************)
EXTENDS FrontEnds

MCDiskPaths == {<<"/">>, <<"/", "d">>, <<"/", "x">>, <<"/", Hidden, NotText>>, <<"/", "d", "/", "x", Ext>>}

MCContents ==
    (<<"/">> :> {"dir"}) @@ (<<"/", "d">> :> {"dir"}) @@ (<<"/", "x">> :> {"plain"})
    @@ (<<"/", Hidden, NotText>> :> {"plain"})
    @@ (<<"/", "d", "/", "x", Ext>> :> {"none", "profiled"})

MCNames == <<<<Hidden, NotText>>, <<"d">>, <<"x">>, <<"x", Ext>>>>

MCDefaultTarget == <<"3", "d">>
================================================================================
