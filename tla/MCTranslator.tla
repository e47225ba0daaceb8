---------------------------- MODULE MCTranslator ----------------------------
(***************************************************************************)
(* Small instances of CallTranslator.  One or two calls per side, made by  *)
(* two radios on two talkgroups; timers a few ticks long.                  *)
(***************************************************************************)
EXTENDS CallTranslator

OneIpscCall  == {[stream |-> "i1", src |-> "u1", tg |-> "g1"]}
IpscCallOnG2 == {[stream |-> "i1", src |-> "u1", tg |-> "g2"]}
TwoIpscCalls == OneIpscCall \cup {[stream |-> "i2", src |-> "u2", tg |-> "g2"]}
OneHbpCall   == {[stream |-> "h1", src |-> "u1", tg |-> "g1"]}
TwoHbpCalls  == OneHbpCall \cup {[stream |-> "h2", src |-> "u2", tg |-> "g2"]}
\* The same radio keys up twice.
TwoHbpCallsOneUser == OneHbpCall \cup {[stream |-> "h2", src |-> "u1", tg |-> "g1"]}
=============================================================================
