---------------------------- MODULE MCJsdaCutover ----------------------------
(* Small instances of the JSDA cutover for TLC.                            *)
EXTENDS JsdaCutover

CONSTANTS sha1, sha2

TwoShas == {sha1, sha2}
Staging == {"staging"}
Both == {"staging", "production"}

==============================================================================
