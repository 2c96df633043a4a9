------------------------------ MODULE MCSession ------------------------------
(***************************************************************************)
(* An instance of Session with two pairs C takes and one it refuses, which *)
(* comes first or last in a list, and a malformed item after a good one.   *)
(***************************************************************************)
EXTENDS Session

CONSTANTS threads2, threads4, bad

AllPairs == {threads2, threads4, bad}

BadPairs == {bad}

Lists == {<<threads2, threads4>>, <<threads2, bad>>, <<bad, threads4>>,
          <<threads4, Malformed>>}
==============================================================================
