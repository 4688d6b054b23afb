---------------------------- MODULE MCReassembly ----------------------------
(***************************************************************************)
(* Reassembly on a small instance: two peers that number their messages     *)
(* alike, a request and a response with the same ID, an ID that a restarted *)
(* peer reuses for a message of another length (v) and of the same one (t,  *)
(* one part of which is as in x), and messages of one, two and three        *)
(* fragments over a table of two records.                                   *)
(***************************************************************************)
EXTENDS Reassembly

CONSTANTS a, b

Msg(source, id, type, bytes, count) ==
  [source |-> source, id |-> id, type |-> type, count |-> count, length |-> count,
   parts |-> [i \in 0 .. count - 1 |-> bytes[i + 1]]]

MCMessages ==
  [k \in {"Command", "Event", "Security"} |->
     IF k = "Command"
       THEN {Msg(a, 1, "request", <<"x", "x", "x">>, 3), Msg(a, 1, "request", <<"t", "x", "t">>, 3),
             Msg(a, 1, "request", <<"v", "v">>, 2), Msg(a, 1, "response", <<"y", "y">>, 2),
             Msg(b, 1, "request", <<"z", "z">>, 2), Msg(b, 2, "request", <<"w">>, 1)}
       ELSE {Msg(a, 1, "event", <<"x", "x", "x">>, 3), Msg(a, 1, "event", <<"t", "x", "t">>, 3),
             Msg(a, 1, "event", <<"v", "v">>, 2), Msg(a, 2, "event", <<"y", "y">>, 2),
             Msg(b, 1, "event", <<"z", "z", "z">>, 3), Msg(b, 2, "event", <<"w">>, 1)}]
=============================================================================
