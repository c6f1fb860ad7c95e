------------------------------ MODULE Lifecycle ------------------------------
(***************************************************************************)
(* The life of a server (src/src/server/mod.rs): launch, shutdown and       *)
(* wait_for_shutdown, called by the thread that holds the Server, over the  *)
(* swiboe thread (swiboe.rs, spinner.rs), the thread of the event loop      *)
(* (ipc_bridge.rs) and the file of the Unix socket, which outlives the      *)
(* process.  Of the traffic only that which can end a thread is told apart; *)
(* Server and IpcBridge have the rest.                                      *)
(***************************************************************************)
EXTENDS Integers, Sequences

CONSTANTS
    MaxStarts,     \* bound: processes started one after the other
    MaxEvents      \* bound: what clients do, per process

ASSUME LifecycleAssumption == MaxStarts \in Nat /\ MaxEvents \in Nat

VARIABLES
    main,              \* what the thread that holds the Server does; "off": no process
    joined,            \* the threads whose JoinHandles have been taken
    swiboe, bridge,    \* the two threads
    commands,          \* queue of the swiboe thread
    bridge_commands,   \* queue of the event loop
    socket,            \* the file of the Unix socket exists
    asked,             \* history: shutdown was called in this process
    returned,          \* history: wait_for_shutdown has returned in this process
    crashed,           \* history: the last process that was launched ended without that
    starts, events     \* bounded counters

threads == <<swiboe, bridge, commands, bridge_commands>>
vars == <<main, joined, threads, socket, asked, returned, crashed, starts, events>>

\* A channel whose receiver has ended refuses what is sent; thread is who receives.
Sent(queue, thread, command) == IF thread = "running" THEN Append(queue, command) ELSE queue

Init ==
    /\ main = "off" /\ joined = {} /\ swiboe = "ended" /\ bridge = "ended"
    /\ commands = <<>> /\ bridge_commands = <<>>
    /\ socket = FALSE /\ asked = FALSE /\ returned = FALSE /\ crashed = FALSE
    /\ starts = 0 /\ events = 0

-----------------------------------------------------------------------------
(* The thread that holds the Server.                                         *)

\* Server::launch up to the threads: binding a socket whose file exists panics.
launch ==
    /\ main = "off" /\ starts < MaxStarts
    /\ starts' = starts + 1 /\ events' = 0 /\ joined' = {}
    /\ commands' = <<>> /\ bridge_commands' = <<>>
    /\ asked' = FALSE /\ returned' = FALSE
    /\ IF socket
       THEN main' = "launch failed" /\ UNCHANGED <<swiboe, bridge, socket>>
       ELSE main' = "launching" /\ swiboe' = "running" /\ bridge' = "running" /\ socket' = TRUE
    /\ UNCHANGED crashed

\* The plugins connect and register their RPCs, for which they wait.
launched ==
    /\ main = "launching" /\ swiboe = "running" /\ bridge = "running"
    /\ main' = "holds"
    /\ UNCHANGED <<joined, threads, socket, asked, returned, crashed, starts, events>>

\* Mutant: the event loop is not told to quit.
shutdown_NoQuit ==
    /\ main = "holds"
    /\ main' = "shutdown:join_bridge" /\ asked' = TRUE
    /\ UNCHANGED <<joined, threads, socket, returned, crashed, starts, events>>

shutdown ==
    /\ main = "holds"
    /\ bridge_commands' = Sent(bridge_commands, bridge, "Quit")
    /\ main' = "shutdown:join_bridge" /\ asked' = TRUE
    /\ UNCHANGED <<joined, swiboe, bridge, commands, socket, returned, crashed, starts, events>>

wait_for_shutdown ==
    /\ main = "holds"
    /\ main' = "wait:join_bridge"
    /\ UNCHANGED <<joined, threads, socket, asked, returned, crashed, starts, events>>

\* Mutant: a thread is joined that may not have ended.
join_Detached(name, thread, next) ==
    /\ main' = IF thread = "panicked" THEN "panicked" ELSE next
    /\ joined' = joined \cup {name}

\* Waits for a thread, unless that was done before; a panic in it is one here (expect).
join(name, thread, next) ==
    /\ name \in joined \/ thread # "running"
    /\ main' = IF name \notin joined /\ thread = "panicked" THEN "panicked" ELSE next
    /\ joined' = joined \cup {name}

\* The event loop has ended; shutdown also tells the swiboe thread to quit.
join_bridge ==
    /\ \/ /\ main = "shutdown:join_bridge"
          /\ join("bridge", bridge, "shutdown:join_swiboe")
          /\ commands' = IF main' = "panicked" THEN commands ELSE Sent(commands, swiboe, "Quit")
       \/ /\ main = "wait:join_bridge"
          /\ join("bridge", bridge, "wait:join_swiboe")
          /\ UNCHANGED commands
    /\ UNCHANGED <<swiboe, bridge, bridge_commands, socket, asked, returned, crashed, starts, events>>

\* shutdown goes on with wait_for_shutdown.
join_swiboe ==
    /\ \/ main = "shutdown:join_swiboe" /\ join("swiboe", swiboe, "wait:join_bridge")
       \/ main = "wait:join_swiboe" /\ join("swiboe", swiboe, "wait:remove_file")
    /\ UNCHANGED <<threads, socket, asked, returned, crashed, starts, events>>

\* Mutant: the file is left to the next launch.
remove_file_Left ==
    /\ main = "wait:remove_file"
    /\ main' = "holds" /\ returned' = TRUE
    /\ UNCHANGED <<joined, threads, socket, asked, crashed, starts, events>>

\* Removing a file that is gone panics; otherwise wait_for_shutdown returns.
remove_file ==
    /\ main = "wait:remove_file"
    /\ IF socket
       THEN main' = "holds" /\ socket' = FALSE /\ returned' = TRUE
       ELSE main' = "panicked" /\ UNCHANGED <<socket, returned>>
    /\ UNCHANGED <<joined, threads, asked, crashed, starts, events>>

\* The process ends: after its work, by a panic, or killed at any time.
exit ==
    /\ main # "off"
    /\ main' = "off" /\ swiboe' = "ended" /\ bridge' = "ended"
    /\ commands' = <<>> /\ bridge_commands' = <<>>
    /\ crashed' = IF main = "launch failed" THEN crashed ELSE ~returned
    /\ UNCHANGED <<joined, socket, asked, returned, starts, events>>

-----------------------------------------------------------------------------
(* The event loop.                                                           *)

\* ClientConnected, ClientDisconnected, SendDataFailed: expect() panics the event loop
\* when the swiboe thread has ended.
tell_swiboe(command) ==
    IF swiboe = "running"
    THEN commands' = Append(commands, command) /\ UNCHANGED bridge
    ELSE bridge' = "panicked" /\ UNCHANGED commands

\* A client connects or disconnects.
connection ==
    /\ bridge = "running" /\ events < MaxEvents
    /\ tell_swiboe("Client")
    /\ events' = events + 1
    /\ UNCHANGED <<main, joined, swiboe, bridge_commands, socket, asked, returned, crashed, starts>>

\* A reader job passes a call on; without a swiboe thread the panic stays in the job.
\* "exit" is core.exit, "bad" a core function that panics.
call ==
    /\ bridge = "running" /\ events < MaxEvents
    /\ \E c \in {"call", "exit", "bad"} : commands' = Sent(commands, swiboe, c)
    /\ events' = events + 1
    /\ UNCHANGED <<main, joined, swiboe, bridge, bridge_commands, socket, asked, returned, crashed, starts>>

\* IpcBridge::notify; SendData fails for a client that has disconnected.
notify ==
    /\ bridge = "running" /\ bridge_commands # <<>>
    /\ bridge_commands' = Tail(bridge_commands)
    /\ \/ /\ Head(bridge_commands) = "Quit"
          /\ bridge' = "ended" /\ UNCHANGED commands
       \/ /\ Head(bridge_commands) = "SendData"
          /\ UNCHANGED <<bridge, commands>> \/ tell_swiboe("SendDataFailed")
    /\ UNCHANGED <<main, joined, swiboe, socket, asked, returned, crashed, starts, events>>

-----------------------------------------------------------------------------
(* The swiboe thread: Spinner::spin over Handler::handle.                    *)

\* An answer that cannot be sent ends the thread, with an error that is printed.
answer ==
    /\ bridge_commands' = Sent(bridge_commands, bridge, "SendData")
    /\ swiboe' = IF bridge = "running" THEN "running" ELSE "ended"

handle ==
    /\ swiboe = "running" /\ commands # <<>>
    /\ LET rest == Tail(commands)
       IN  \/ /\ Head(commands) = "Quit"
              /\ swiboe' = "ended" /\ commands' = rest /\ UNCHANGED bridge_commands
           \/ /\ Head(commands) \in {"Client", "SendDataFailed"}
              /\ commands' = rest /\ UNCHANGED <<swiboe, bridge_commands>>
           \/ /\ Head(commands) = "call"
              /\ answer /\ commands' = rest
           \/ /\ Head(commands) = "exit"
              /\ answer /\ commands' = Append(rest, "Quit")
           \/ /\ Head(commands) = "bad"
              /\ swiboe' = "panicked" /\ commands' = rest /\ UNCHANGED bridge_commands
    /\ UNCHANGED <<main, joined, bridge, socket, asked, returned, crashed, starts, events>>

-----------------------------------------------------------------------------

Main == join_bridge \/ join_swiboe \/ remove_file

Next ==
    \/ launch \/ launched \/ shutdown \/ wait_for_shutdown \/ Main \/ exit
    \/ connection \/ call \/ notify \/ handle

Spec == Init /\ [][Next]_vars

\* The threads run; nobody need call, connect or kill.
FairSpec == Spec /\ WF_vars(Main) /\ WF_vars(notify) /\ WF_vars(handle)

-----------------------------------------------------------------------------
(* Properties.                                                               *)

Stopping ==
    {"shutdown:join_bridge", "shutdown:join_swiboe",
     "wait:join_bridge", "wait:join_swiboe", "wait:remove_file"}

Thread == {"running", "ended", "panicked"}

\* Type invariant; a thread whose handle was taken has ended.
TypeOK ==
    /\ main \in Stopping \cup {"off", "launching", "launch failed", "holds", "panicked"}
    /\ joined \subseteq {"swiboe", "bridge"}
    /\ "swiboe" \in joined => swiboe # "running"
    /\ "bridge" \in joined => bridge # "running"
    /\ swiboe \in Thread /\ bridge \in Thread
    /\ commands \in Seq({"Quit", "Client", "SendDataFailed", "call", "exit", "bad"})
    /\ bridge_commands \in Seq({"Quit", "SendData"})
    /\ socket \in BOOLEAN /\ asked \in BOOLEAN /\ returned \in BOOLEAN
    /\ crashed \in BOOLEAN
    /\ starts \in 0 .. MaxStarts /\ events \in 0 .. MaxEvents

\* wait_for_shutdown returns only after a shutdown: core.exit ends the swiboe thread
\* alone, and the event loop outlives it until it panics.  When it has returned both
\* threads have ended, without a panic, whatever was queued for them, and the socket is
\* gone.
StoppedCleanly ==
    main = "holds" /\ returned
       => asked /\ bridge = "ended" /\ swiboe = "ended" /\ ~socket

\* A launch fails exactly when the process before was killed, or panicked, before
\* wait_for_shutdown had returned; a launch that fails for that does not repair it.
LaunchFailsAfterCrash ==
    /\ main = "launch failed" => crashed
    /\ main = "launching" => ~crashed

\* A panic of the thread that holds the Server is the panic of a thread it joined or a
\* second shutdown; the event loop panics only when the swiboe thread ended first.
PanicsForAReason ==
    /\ main = "panicked" => bridge = "panicked" \/ swiboe = "panicked" \/ returned
    /\ bridge = "panicked" => swiboe # "running"

\* shutdown returns, or panics: the order in which it stops and joins the threads does
\* not leave it waiting, also when they end, or panic, on their own meanwhile.
ShutdownReturns == main \in Stopping /\ asked ~> main \in {"holds", "panicked", "off"}

=============================================================================
