---------------------------- MODULE MCRpcClient ----------------------------
(* Instance of RpcClient: five programs of up to three calls.               *)
EXTENDS RpcClient, TLC

CONSTANTS c1, c2, c3

By(t, f, uses) == [caller |-> t, function |-> f, uses |-> uses]
Register == By("owner", "core.new_rpc", {})
Foreign == By("other", "own", {})
Unused == By("nobody", "own", {})
Program(a, b, c, lossy) == [calls |-> c1 :> a @@ c2 :> b @@ c3 :> c, lossy |-> lossy]

MCPrograms ==
    { \* an RPC that waits for an RPC of its own client
      Program(Register, Foreign, By("pool", "own", {"wait"}), FALSE),
      \* an RPC that streams from another client
      Program(Register, Foreign, By("pool", "remote", {"recv"}), FALSE),
      \* a thread that waits for an RPC of its own client, which waits for another one
      Program(Register, By("thin", "own", {"wait"}), By("pool", "remote", {"wait"}), FALSE),
      \* a thread that polls, waits and waits again, or cancels
      Program(Register, By("thin", "own", {"try_recv", "wait", "cancel", "drop"}), Unused, FALSE),
      \* a connection that may be lost
      Program(Register, By("thin", "remote", {"try_recv", "recv", "cancel"}), Unused, TRUE) }
=============================================================================
