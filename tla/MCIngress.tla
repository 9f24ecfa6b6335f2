----------------------------- MODULE MCIngress -----------------------------
(***************************************************************************)
(* Two relays, two clients, four events, of which e3 carries one message   *)
(* too many and e4 is not for the bridge.  A tick is a minute, and the     *)
(* windows are the defaults of config.py: two minutes back and forth, and  *)
(* one minute of slack.  While an event passes the window, at most one     *)
(* other does.                                                             *)
(***************************************************************************)
EXTENDS Ingress

MCEvents == {"e1", "e2", "e3", "e4"}
MCEvent ==
  [e1 |-> Wrap("alice", "bridge", <<Message>>, 0),
   e2 |-> Wrap("alice", "bridge", <<Message, Message>>, 1),
   e3 |-> Wrap("bob", "bridge", <<Message, Message, Message>>, 6),
   e4 |-> Wrap("bob", "alice", <<Message>>, 0)]

\* Two places in the cache are enough for these events, as HandledOnce needs.
ASSUME TwoPlacesSuffice == CacheSuffices
============================================================================
