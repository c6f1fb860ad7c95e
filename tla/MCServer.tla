------------------------------ MODULE MCServer ------------------------------
(***************************************************************************)
(* Small instances of Server for TLC.                                      *)
(***************************************************************************)
EXTENDS Server, TLC

Symmetry == Permutations(Contexts) \cup Permutations(Tokens)

(***************************************************************************)
(* The quiescent state in which clients 1, 2 and 3 have connected and      *)
(* clients 2 and 3 have registered and installed every function, client 2  *)
(* with the smallest priority and client 3 with the largest.  Tokens are   *)
(* numbers here; the calls of the registrations are over.                  *)
(***************************************************************************)
Id(n) == [serial |-> n, token |-> n]
Lowest == CHOOSE p \in Priorities : \A q \in Priorities : p <= q
Highest == CHOOSE p \in Priorities : \A q \in Priorities : q <= p

LayeredInit ==
  /\ commands = <<>> /\ ipc_bridge_commands = <<>>
  /\ api_table = [n \in Functions |->
        <<[client_id |-> Id(2), priority |-> Lowest],
          [client_id |-> Id(3), priority |-> Highest]>>]
  /\ clients = {Id(1), Id(2), Id(3)}
  /\ running_rpcs = [c \in Contexts |-> None]
  /\ connections = [t \in Tokens |-> IF t \in 1 .. 3 THEN Id(t) ELSE None]
  /\ next_serial = 4
  /\ to_server = [id \in ClientId |-> <<>>]
  /\ to_client = [id \in ClientId |-> <<>>]
  /\ call = [c \in Contexts |-> None]
  /\ responses = [c \in Contexts |-> <<>>]
  /\ remote_procedures = [id \in ClientId |->
        IF id \in {Id(2), Id(3)} THEN Functions ELSE {}]
  /\ serving = [id \in ClientId |-> {}]
  /\ cancelled = {}
  /\ updates = [c \in Contexts |-> 0]
  /\ unasked = [c \in Contexts |-> {}]
  /\ dropped = {} /\ lost = {}

LayeredSpec == LayeredInit /\ [][Next]_vars
LayeredFairSpec == LayeredSpec /\ Fairness
=============================================================================
