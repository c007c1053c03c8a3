------------------------------ MODULE MCSession ------------------------------
(***************************************************************************)
(* Two shells, a home that the profile spells in two ways, one that is     *)
(* missing, and a path of the home and another directory in either order.  *)
(***************************************************************************)
EXTENDS ShellSession, TLC

Directories == {"home", "bin"}

LeadsTo == ("home" :> "home") @@ ("bin" :> "bin")
           @@ ("home/" :> "home") @@ ("gone" :> Nowhere)

FilesIn == ("home" :> {"cat"}) @@ ("bin" :> {"ls"})

BinFirst  == <<"bin", "home">>
HomeFirst == <<"home", "bin">>

SomeProfiles == { [HOME |-> "home/", PATH |-> BinFirst],
                  [HOME |-> "gone",  PATH |-> NoValue],
                  [HOME |-> Unset,   PATH |-> Unset] }

AnyShell == Permutations(Shells)
=============================================================================
