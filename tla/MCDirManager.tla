---------------------------- MODULE MCDirManager ----------------------------
(* A small file tree for TLC: /home/user with a program and a            *)
(* directory that holds a dangling link, and /home/vault.                  *)
EXTENDS DirManager, TLC

CONSTANTS home, user, junk, vault, prog, link

TreeDirs == {home, user, junk, vault}
TreeFiles == {prog}
TreeLinks == {link}
TreeParent == home :> home @@ user :> home @@ vault :> home @@ junk :> user
              @@ prog :> user @@ link :> junk
AtMostOne == {{}, {vault}, {home}}
ManySizes == {0, 1, 2, 4}
Gone == {prog, link, junk}
=============================================================================
