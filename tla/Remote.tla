------------------------------- MODULE Remote --------------------------------
(***************************************************************************)
(* remote/, cmd/glauncher_cli: the remote service and the processes around *)
(* it.  "glauncher start-remote" runs three goroutines (the errgroup's two *)
(* and the listener) and a handler for every connection; "kill-remote" and *)
(* an interrupted start-remote ask whoever holds the address to close; f   *)
(* hands it the selected entry.  All processes use one kind of remote: the *)
(* two kinds have an address each and never meet.                          *)
(***************************************************************************)
EXTENDS EntrySerializer, EntryLaunch, Naturals, Sequences, FiniteSets

CONSTANTS
  Servers,   \* processes "glauncher start-remote"
  Killers,   \* processes "glauncher kill-remote"
  Fs,        \* sessions of f, up to their first selection
  NoServer,  \* not a process
  NoMessage, \* nothing was selected yet
  Kinds,     \* kinds of remote to consider, of {"http", "rpc"}
  Builds,    \* which build each process may be of: a set of functions
  Exits      \* exit codes of the programs that are run

ASSUME RemoteAssumption ==
  /\ NoServer \notin Servers
  /\ NoMessage \notin Message
  /\ Types \subseteq {"path", "shortcut", "desktop", "application", "command"}
  /\ Servers \cap Killers = {} /\ Servers \cap Fs = {} /\ Killers \cap Fs = {}
  /\ Kinds \subseteq {"http", "rpc"}
  /\ Builds \subseteq [Servers \cup Fs -> Build]
  /\ Exits \subseteq 0..255 /\ 0 \in Exits
  /\ Options \subseteq Keys \cup {""}

VARIABLES
  kind,     \* the remote in use
  build,    \* build[p]: the build of process p
  server,   \* server[s]: process s and its goroutines
  call,     \* call[c]: the call of c on the remote, and who serves it
  message,  \* message[f]: the entry f sends
  ran,      \* ran[f]: the programs run for it, in order
  exit      \* exit[f]: how the last one that ended did

world == <<kind, build>>

vars == <<kind, build, server, call, message, ran, exit>>

Closers == Killers \cup Servers

Server == [proc : {"off", "on", "ended"},
           listener : {"none", "up", "failed"},  \* ListenAndServe()
           done : {0, 1},          \* HTTP: the channel is closed; RPC: its length
           start : {"select", "returned", "end"},
           interrupted : BOOLEAN,
           ctx : BOOLEAN,          \* ctx is done
           watch : {"wait", "close", "end"}]

Fresh == [proc |-> "off", listener |-> "none", done |-> 0, start |-> "select",
          interrupted |-> TRUE, ctx |-> FALSE, watch |-> "wait"]

\* Nothing else is left of a process that ended.
Gone == [Fresh EXCEPT !.proc = "ended"]

Call == [at : {"idle", "connected", "local", "close", "closing", "entry",
               "running", "parent", "answer", "failed", "ok", "error"},
         peer : Servers \cup {NoServer}]

NoCall == [at |-> "idle", peer |-> NoServer]

NoExit == 256  \* not an exit code

Init ==
  /\ kind \in Kinds
  /\ build \in Builds
  /\ server = [s \in Servers |-> Fresh]
  /\ call = [c \in Closers \cup Fs |-> NoCall]
  /\ message = [f \in Fs |-> NoMessage]
  /\ ran = [f \in Fs |-> <<>>]
  /\ exit = [f \in Fs |-> NoExit]

On(s) == server[s].proc = "on"

\* Who holds the address.
Up == {s \in Servers : On(s) /\ server[s].listener = "up"}

\* How the call of c goes on; the handler is a goroutine of its peer.
Goes(c, at) == call' = [call EXCEPT ![c].at = at]

At(c, at) == call[c].at = at /\ On(call[c].peer)

EntryUnchanged == UNCHANGED <<message, ran, exit>>

-----------------------------------------------------------------------------
(* start-remote *)

StartRemote(s) ==
  /\ server[s].proc = "off"
  /\ server' = [server EXCEPT ![s].proc = "on"]
  /\ UNCHANGED <<world, call>> /\ EntryUnchanged

\* Variant: a second process gets the address, too.
BindAnyway(s) ==
  /\ On(s) /\ server[s].listener = "none"
  /\ server' = [server EXCEPT ![s].listener = "up"]
  /\ UNCHANGED <<world, call>> /\ EntryUnchanged

Bind(s) ==
  /\ On(s) /\ server[s].listener = "none"
  /\ server' = [server EXCEPT ![s].listener = IF Up = {} THEN "up" ELSE "failed"]
  /\ UNCHANGED <<world, call>> /\ EntryUnchanged

\* The select at the end of Start() and StartServer().
StartReturns(s) ==
  /\ On(s) /\ server[s].start = "select"
  /\ \/ /\ server[s].done = 1
        /\ server' = [server EXCEPT ![s].start = "returned",
                                    ![s].done = IF kind = "rpc" THEN 0 ELSE 1]
     \/ /\ server[s].listener = "failed"
        /\ server' = [server EXCEPT ![s].start = "returned"]
  /\ UNCHANGED <<world, call>> /\ EntryUnchanged

\* interrupted = false and stop(): in between, the watcher would read the
\* same as after both.
StopWatching(s) ==
  /\ On(s) /\ server[s].start = "returned"
  /\ server' = [server EXCEPT ![s].start = "end", ![s].interrupted = FALSE,
                              ![s].ctx = TRUE]
  /\ UNCHANGED <<world, call>> /\ EntryUnchanged

\* SIGINT or SIGTERM; once ctx is done, and until stop(), it has no effect.
Signal(s) ==
  /\ On(s) /\ server[s].start # "end" /\ ~ server[s].ctx
  /\ server' = [server EXCEPT ![s].ctx = TRUE]
  /\ UNCHANGED <<world, call>> /\ EntryUnchanged

\* Any other end of the process; after stop(), a signal is one.
Crash(s) ==
  /\ On(s)
  /\ server' = [server EXCEPT ![s] = Gone]
  /\ UNCHANGED <<world, call>> /\ EntryUnchanged

\* Variant: interrupted is read the wrong way round.
WatchInverted(s) ==
  /\ On(s) /\ server[s].watch = "wait" /\ server[s].ctx
  /\ server' = [server EXCEPT ![s].watch =
                  IF server[s].interrupted THEN "end" ELSE "close"]
  /\ UNCHANGED <<world, call>> /\ EntryUnchanged

Watch(s) ==
  /\ On(s) /\ server[s].watch = "wait" /\ server[s].ctx
  /\ server' = [server EXCEPT ![s].watch =
                  IF server[s].interrupted THEN "close" ELSE "end"]
  /\ UNCHANGED <<world, call>> /\ EntryUnchanged

WatchEnds(s) ==
  /\ On(s) /\ server[s].watch = "close" /\ call[s].at \in {"ok", "error"}
  /\ server' = [server EXCEPT ![s].watch = "end"]
  /\ UNCHANGED <<world, call>> /\ EntryUnchanged

\* errGroup.Wait() returns, and the process ends with its handlers.
Exit(s) ==
  /\ On(s) /\ server[s].start = "end" /\ server[s].watch = "end"
  /\ server' = [server EXCEPT ![s] = Gone]
  /\ UNCHANGED <<world, call>> /\ EntryUnchanged

-----------------------------------------------------------------------------
(* Close(), from kill-remote or an interrupted start-remote *)

Close(c) ==
  /\ call[c].at = "idle"
  /\ c \in Servers => On(c) /\ server[c].watch = "close"
  /\ \/ \E s \in Up : call' = [call EXCEPT ![c] = [at |-> "close", peer |-> s]]
     \/ Up = {} /\ Goes(c, "error")
  /\ UNCHANGED <<world, server>> /\ EntryUnchanged

\* closeRoute: the select, then its default branch.  The second close of a
\* channel panics: net/http recovers, and drops the connection.
CheckDone(c) ==
  /\ kind = "http" /\ At(c, "close")
  /\ Goes(c, IF server[call[c].peer].done = 1 THEN "answer" ELSE "closing")
  /\ UNCHANGED <<world, server>> /\ EntryUnchanged

CloseDone(c) ==
  /\ At(c, "closing")
  /\ Goes(c, IF server[call[c].peer].done = 1 THEN "failed" ELSE "answer")
  /\ server' = [server EXCEPT ![call[c].peer].done = 1]
  /\ UNCHANGED world /\ EntryUnchanged

\* The handler waits as long as the channel is full.
\* Variant: it drops the message instead, and still answers.
CloseServerNow(c) ==
  /\ kind = "rpc" /\ At(c, "close")
  /\ Goes(c, "answer")
  /\ UNCHANGED <<world, server>> /\ EntryUnchanged

CloseServer(c) ==
  /\ kind = "rpc" /\ At(c, "close")
  /\ server[call[c].peer].done = 0
  /\ server' = [server EXCEPT ![call[c].peer].done = 1]
  /\ Goes(c, "answer")
  /\ UNCHANGED world /\ EntryUnchanged

-----------------------------------------------------------------------------
(* f: Connect() when it starts, HandleEntry() once something is selected *)

\* Without a remote, f offers what it can launch itself.
Connect(f) ==
  /\ call[f].at = "idle"
  /\ \/ Up # {} /\ Goes(f, "connected")
     \/ (Up = {} \/ kind = "http") /\ Goes(f, "local")  \* HTTP: the timeout
  /\ UNCHANGED <<world, server>> /\ EntryUnchanged

\* Whoever holds the address by now gets the entry.
HandleEntry(f) ==
  /\ call[f].at = "connected"
  /\ \E e \in Entry, o \in Options :
       /\ InFrontend(e.type, o) = "remote"
       /\ message' = [message EXCEPT ![f] = Serialize(build[f], e, o)]
       /\ \/ /\ CanSerialize(build[f], e)
             /\ \E s \in Up : call' = [call EXCEPT ![f] = [at |-> "entry", peer |-> s]]
          \/ /\ Up = {} \/ ~ CanSerialize(build[f], e)
             /\ Goes(f, "error")
  /\ UNCHANGED <<world, server, ran, exit>>

Wanted(m) ==
  LET e == Deserialize(m) IN FirstRun(e.type, m.options, e.data)

Accepted(f) == Deserializes(build[call[f].peer], message[f])

\* An error of DeserializeWithOption(), or of RemoteLaunch() right away; there
\* may always be one, as the program may not start.
Refuse(f) ==
  /\ At(f, "entry")
  /\ Goes(f, "failed")
  /\ UNCHANGED <<world, server>> /\ EntryUnchanged

Launch(f) ==
  /\ At(f, "entry")
  /\ Accepted(f) /\ Wanted(message[f]) # NoRun
  /\ ran' = [ran EXCEPT ![f] = Append(@, Wanted(message[f]))]
  /\ Goes(f, IF Started(Wanted(message[f])) THEN "answer" ELSE "running")
  /\ UNCHANGED <<world, server, message, exit>>

\* The program ends.
\* Variant: its exit code is ignored.
IgnoreExit(f, e) ==
  /\ At(f, "running") \/ At(f, "parent")
  /\ exit' = [exit EXCEPT ![f] = e]
  /\ Goes(f, "answer")
  /\ UNCHANGED <<world, server, message, ran>>

ProgramEnds(f, e) ==
  /\ exit' = [exit EXCEPT ![f] = e]
  /\ \/ /\ At(f, "running") /\ FallsBack(message[f].type, message[f].options, e)
        /\ ran' = [ran EXCEPT ![f] = Append(@, ParentRun)]
        /\ Goes(f, "parent")
     \/ /\ \/ At(f, "parent")
           \/ /\ At(f, "running")
              /\ ~ FallsBack(message[f].type, message[f].options, e)
        /\ Goes(f, IF e = 0 THEN "answer" ELSE "failed")
        /\ UNCHANGED ran
  /\ UNCHANGED <<world, server, message>>

-----------------------------------------------------------------------------

Pending == {"close", "closing", "entry", "running", "parent", "answer", "failed"}

Answer(c) ==
  /\ \/ At(c, "answer") /\ Goes(c, "ok")
     \/ At(c, "failed") /\ Goes(c, "error")
  /\ UNCHANGED <<world, server>> /\ EntryUnchanged

\* The process that served the call is gone, and the connection with it.
\* Variant: the entry is sent again to whoever holds the address.
SendAgain(c) ==
  /\ call[c].at \in Pending /\ server[call[c].peer].proc = "ended"
  /\ \/ Up = {} /\ Goes(c, "error")
     \/ \E s \in Up :
          call' = [call EXCEPT ![c] = [at |-> IF c \in Fs THEN "entry" ELSE "close",
                                       peer |-> s]]
  /\ UNCHANGED <<world, server>> /\ EntryUnchanged

\* Variant: only Close() notices.
LostWhileClosing(c) ==
  /\ c \in Closers /\ call[c].at \in Pending
  /\ server[call[c].peer].proc = "ended"
  /\ Goes(c, "error")
  /\ UNCHANGED <<world, server>> /\ EntryUnchanged

Lost(c) ==
  /\ call[c].at \in Pending /\ server[call[c].peer].proc = "ended"
  /\ Goes(c, "error")
  /\ UNCHANGED <<world, server>> /\ EntryUnchanged

ServerStep(s) ==
  \/ Bind(s) \/ StartReturns(s) \/ StopWatching(s)
  \/ Watch(s) \/ WatchEnds(s) \/ Exit(s)

Handler(c) ==
  \/ c \in Closers /\ (CheckDone(c) \/ CloseDone(c) \/ CloseServer(c))
  \/ c \in Fs /\ (Refuse(c) \/ Launch(c) \/ \E e \in Exits : ProgramEnds(c, e))
  \/ Answer(c) \/ Lost(c)

Next ==
  \/ \E s \in Servers : StartRemote(s) \/ Signal(s) \/ Crash(s) \/ ServerStep(s)
  \/ \E c \in Closers : Close(c)
  \/ \E f \in Fs : Connect(f) \/ HandleEntry(f)
  \/ \E c \in Closers \cup Fs : Handler(c)

Spec == Init /\ [][Next]_vars

(***************************************************************************)
(* The goroutines of a process are scheduled, and the programs a handler   *)
(* waits for end.  Nobody has to start anything, or send a signal.         *)
(***************************************************************************)
FairSpec ==
  /\ Spec
  /\ \A s \in Servers :
       /\ WF_vars(Bind(s))
       /\ WF_vars(StartReturns(s) \/ StopWatching(s))
       /\ WF_vars(Watch(s) \/ Close(s) \/ WatchEnds(s))
       /\ WF_vars(Exit(s))
  /\ \A c \in Closers \cup Fs : WF_vars(Handler(c))

-----------------------------------------------------------------------------

TypeOK ==
  /\ kind \in Kinds
  /\ build \in Builds
  /\ server \in [Servers -> Server]
  /\ call \in [Closers \cup Fs -> Call]
  /\ message \in [Fs -> Message \cup {NoMessage}]
  /\ ran \in [Fs -> Seq(Runs)] /\ \A f \in Fs : Len(ran[f]) <= 2
  /\ exit \in [Fs -> Exits \cup {NoExit}]

\* A server before, in and after its run.
ServerInv(s) ==
  LET p == server[s] IN
  /\ p.proc = "off" => p = Fresh
  /\ p.proc = "ended" => p = Gone
  /\ p.interrupted <=> p.start \in {"select", "returned"}
  /\ p.start = "end" => p.ctx
  /\ p.watch # "wait" => p.ctx
  /\ p.listener # "up" => p.done = 0

\* Who serves a call had the address when it was made.
CallInv(c) ==
  /\ call[c].at \in Pending => call[c].peer \in Servers
  /\ call[c].peer \in Servers => call[c].peer \in Up \/ server[call[c].peer] = Gone
  /\ c \in Servers /\ call[c].at # "idle" => server[c].watch # "wait" \/ server[c] = Gone

\* How far the handler of an entry is shows in what it ran.
EntryInv(f) ==
  /\ message[f] # NoMessage <=> call[f].at \notin {"idle", "connected", "local"}
  /\ call[f].at \in {"idle", "connected", "local", "entry"} =>
       ran[f] = <<>> /\ exit[f] = NoExit
  /\ call[f].at \in {"running", "answer", "ok"} => ran[f] # <<>>
  /\ call[f].at = "parent" => Len(ran[f]) = 2
  /\ call[f].at = "running" => Len(ran[f]) = 1 /\ exit[f] = NoExit
  /\ ran[f] # <<>> => call[f].peer \in Servers

(***************************************************************************)
(* At most one process serves the remote at a time, and what each process, *)
(* handler and caller has done so far agrees with what the others know of  *)
(* it (StartRemote, Start, closeRoute, HandleEntry).                       *)
(***************************************************************************)
IInv ==
  /\ TypeOK
  /\ \A s, t \in Up : s = t
  /\ \A s \in Servers : ServerInv(s)
  /\ \A c \in Closers \cup Fs : CallInv(c)
  /\ \A f \in Fs : EntryInv(f)

(***************************************************************************)
(* Whoever answers the ping when f starts, and whoever serves the call in  *)
(* the end: programs run for an entry only in a process of the version of  *)
(* f, that of the entry first, then at most the fallback, which only an    *)
(* exit code 3 or 4 of xdg-open calls for (DeserializeWithOption,          *)
(* Path.RemoteLaunch).                                                     *)
(***************************************************************************)
NoForeignLaunch ==
  \A f \in Fs : ran[f] # <<>> =>
    /\ build[call[f].peer].version = build[f].version
    /\ ran[f][1] = Wanted(message[f])
    /\ Len(ran[f]) > 1 => ran[f][2] = ParentRun /\ ran[f][1] = Run("xdg-open", "it")

(***************************************************************************)
(* When HandleEntry() returns nil, the last program run for the entry was  *)
(* one nobody waits for, or ended well: f does not leave on a failure.     *)
(***************************************************************************)
OkMeansOpened ==
  \A f \in Fs : call[f].at = "ok" =>
    /\ ran[f] # <<>>
    /\ exit[f] # 0 => exit[f] = NoExit /\ Started(ran[f][1])

(***************************************************************************)
(* What f sees of the service, whatever starts, is killed, interrupted or  *)
(* crashes around it, over HTTP and over RPC: see RemoteService.           *)
(***************************************************************************)
Outcome(f) ==
  CASE call[f].at \in {"idle", "connected", "local"} -> "none"
    [] call[f].at \in Pending -> "open"
    [] call[f].at \in {"ok", "error"} -> call[f].at

Launches(f) ==
  Cardinality({i \in DOMAIN ran[f] : ran[f][i] = Wanted(message[f])})

Service == INSTANCE RemoteService WITH
  Clients <- Fs,
  handle <- [f \in Fs |-> Outcome(f)],
  launches <- [f \in Fs |-> Launches(f)]

RemoteSpec == Service!Spec

(***************************************************************************)
(* HandleEntry() returns, even if the remote goes away during the call:    *)
(* f has no timeout of its own there.                                      *)
(***************************************************************************)
HandleReturns ==
  \A f \in Fs : call[f].at = "entry" ~> call[f].at \in {"ok", "error"}

\* RPC: Start() has returned, and its last reader gone; the channel is full
\* again, and the watcher waits for room in it.
Stuck(s) ==
  /\ kind = "rpc" /\ server[s].start # "select" /\ server[s].done = 1
  /\ server[s].watch = "close" /\ call[s] = [at |-> "close", peer |-> s]

(***************************************************************************)
(* A server that the request of a kill-remote has reached ends, whatever   *)
(* kill-remote is told; the one exception is an RPC server that a signal   *)
(* and a second kill-remote met between the return of Start() and the      *)
(* reset of interrupted.                                                   *)
(***************************************************************************)
CloseEnds ==
  \A c \in Killers, s \in Servers :
    call[c].peer = s ~> server[s].proc = "ended" \/ Stuck(s)

(***************************************************************************)
(* A signal to a server that listens ends it, through its own /close or    *)
(* CloseServer, or a kill-remote it crosses; with the same exception.      *)
(***************************************************************************)
InterruptEnds ==
  \A s \in Servers :
    s \in Up /\ server[s].ctx /\ server[s].watch = "wait"
      ~> server[s].proc = "ended" \/ Stuck(s)
=============================================================================
