-------------------------- MODULE MCFolderRegistry --------------------------
(* Two processes, two new Folders and the bootstrap one.  The places overlap   *)
(* through a parent, through a symlink and with the application's own data.    *)
EXTENDS FolderRegistry
CONSTANTS a, b, boot, p1, p2, e1, e2
Symmetry == Permutations({a, b}) \cup Permutations({e1, e2})
MCPlaces == {<<"x">>, <<"link">>, <<"data">>, <<"z">>}
MCCanon == [q \in MCPlaces |-> IF q = <<"link">> THEN <<"x", "y">> ELSE q]
MCData == <<"data">>
MCBootConfig == [library |-> <<"z">>, state |-> <<"cfg", "state.json">>, device |-> "old",
                 inbox |-> <<"x", "inbox">>, endpoint |-> None, directory |-> None]
=============================================================================
