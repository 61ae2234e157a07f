---------------------------- MODULE RemoteProofs -----------------------------
(***************************************************************************)
(* Proofs about Remote, for any processes, builds, entries and exit codes: *)
(* the inductive invariant IInv, what runs for an entry and what f is told *)
(* of it, and the refinement of RemoteService.                             *)
(***************************************************************************)
EXTENDS Remote, FiniteSetTheorems, TLAPS

\* Every kind of entry has a first program, or fails before one.
LEMMA FirstRunType ==
  ASSUME NEW type \in Types, NEW key, NEW stat
  PROVE  FirstRun(type, key, stat) \in Runs \cup {NoRun}
<1>1. ASSUME NEW program \in {"xdg-open", "nautilus", "x-terminal-emulator", "code",
                               "gtk-launch", "python"}, NEW target \in {"it", "parent"}
      PROVE  Run(program, target) \in Runs
  BY DEF Run, Runs
<1>2. PathRun(key, stat) \in Runs \cup {NoRun}
  <2>1. Folder(stat) \in {"it", "parent"}
    BY Zenon DEF Folder
  <2>2. QED
    BY <1>1, <2>1, Zenon DEF PathRun
<1>3. {ShortCutRun, DesktopFileRun, ApplicationRun, CommandRun} \subseteq Runs \cup {NoRun}
  BY <1>1, Zenon DEF ShortCutRun, DesktopFileRun, ApplicationRun, CommandRun
<1>4. type \in {"path", "shortcut", "desktop", "application", "command"}
  BY RemoteAssumption
<1>5. QED
  BY <1>2, <1>3, <1>4, Zenon DEF FirstRun

LEMMA WantedType ==
  ASSUME NEW m \in Message
  PROVE  Wanted(m) \in Runs \cup {NoRun}
<1>1. m.type \in Types /\ Deserialize(m).type = m.type
  BY DEF Message, Deserialize
<1>2. QED
  BY <1>1, FirstRunType DEF Wanted

LEMMA LenFacts ==
  ASSUME NEW S, NEW r \in Seq(S)
  PROVE  /\ Len(r) \in Nat /\ DOMAIN r = 1 .. Len(r)
         /\ Len(r) = 0 <=> r = <<>>
         /\ Len(r) = 1 \/ Len(r) = 2 => Len(r) >= 1 /\ r # <<>>
OBVIOUS

LEMMA AppendFacts ==
  ASSUME NEW S, NEW r \in Seq(S), NEW x \in S
  PROVE  /\ Append(r, x) \in Seq(S) /\ Len(Append(r, x)) = Len(r) + 1
         /\ Append(r, x)[Len(r) + 1] = x
         /\ Len(r) > 0 => Append(r, x)[1] = r[1]
OBVIOUS

\* A message is one whatever the build of f.
LEMMA SerializeType ==
  ASSUME build \in Builds, NEW f \in Fs, NEW e \in Entry, NEW o \in Options
  PROVE  Serialize(build[f], e, o) \in Message
<1>1. build[f] \in Build
  BY RemoteAssumption
<1>2. QED
  BY <1>1 DEF Build, Entry, Message, Serialize

\* The three kinds of processes are apart, and absent values are not values.
LEMMA Apart ==
  /\ NoServer \notin Servers /\ NoMessage \notin Message /\ NoExit \notin Exits
  /\ \A f \in Fs : f \notin Closers /\ f \notin Servers
<1>1. NoExit \notin Exits
  <2>1. \A e \in Exits : e \in 0..255
    BY RemoteAssumption
  <2>2. QED
    BY <2>1 DEF NoExit
<1>2. QED
  BY <1>1, RemoteAssumption, Zenon DEF Closers

\* A process that ended holds nothing.
LEMMA GoneFacts ==
  /\ Fresh \in Server /\ Gone \in Server
  /\ Gone.proc = "ended" /\ Gone.listener = "none" /\ Gone.done = 0
BY DEF Fresh, Gone, Server

\* A call that goes on has a server that serves it, and the address.
LEMMA ServesFrom ==
  ASSUME IInv, NEW c \in Closers \cup Fs, call[c].at \in Pending, On(call[c].peer)
  PROVE  call[c].peer \in Up
BY GoneFacts DEF IInv, CallInv, On

-----------------------------------------------------------------------------

LEMMA InitIInv == Init => IInv
<1> SUFFICES ASSUME Init
             PROVE  IInv
  OBVIOUS
<1>1. TypeOK
  <2>1. Fresh \in Server /\ NoCall \in Call
    BY DEF Fresh, Server, NoCall, Call
  <2>2. QED
    BY <2>1 DEF Init, TypeOK
<1>2. Up = {}
  BY DEF Init, Up, On, Fresh
<1>3. ASSUME NEW s \in Servers
      PROVE  ServerInv(s)
  BY DEF Init, ServerInv, Fresh
<1>4. ASSUME NEW c \in Closers \cup Fs
      PROVE  CallInv(c)
  BY Apart DEF Init, CallInv, NoCall, Pending
<1>5. ASSUME NEW f \in Fs
      PROVE  EntryInv(f)
  BY DEF Init, EntryInv, NoCall
<1>6. QED
  BY <1>1, <1>2, <1>3, <1>4, <1>5 DEF IInv

\* A server takes the address only while it is free, gives it up only with its
\* life, and forgets no signal.
KeepsAddress(s) ==
  /\ server'[s].proc = "on" /\ server'[s].listener = "up" => s \in Up \/ Up = {}
  /\ s \in Up => \/ server'[s] = Gone
                 \/ server'[s].proc = "on" /\ server'[s].listener = "up"
  /\ server[s] # Gone
  /\ server[s].watch # "wait" => server'[s].watch # "wait" \/ server'[s] = Gone

LEMMA ServerChange ==
  ASSUME IInv, NEW s \in Servers,
         UNCHANGED <<world, call, message, ran, exit>>,
         server' \in [Servers -> Server],
         \A t \in Servers \ {s} : server'[t] = server[t],
         ServerInv(s)',
         KeepsAddress(s)
  PROVE  IInv'
<1>1. TypeOK'
  BY DEF IInv, TypeOK, world
<1>2. /\ \A t \in Servers \ {s} : t \in Up' <=> t \in Up
      /\ s \in Up' <=> server'[s].proc = "on" /\ server'[s].listener = "up"
      /\ Up' \subseteq Servers
  BY DEF Up, On
<1>3. \A t, u \in Up' : t = u
  BY <1>2 DEF IInv, KeepsAddress
<1>4. ASSUME NEW t \in Servers
      PROVE  ServerInv(t)'
  BY DEF IInv, ServerInv
<1>5. ASSUME NEW c \in Closers \cup Fs
      PROVE  CallInv(c)'
  <2>1. CallInv(c) /\ call' = call
    BY DEF IInv
  <2>2. call[c].peer \in Servers => call[c].peer \in Up' \/ server'[call[c].peer] = Gone
    BY <1>2, <2>1 DEF CallInv, KeepsAddress
  <2>3. c \in Servers /\ call[c].at # "idle" => server'[c].watch # "wait" \/ server'[c] = Gone
    BY <2>1 DEF CallInv, KeepsAddress
  <2>4. QED
    BY <2>1, <2>2, <2>3 DEF CallInv
<1>6. ASSUME NEW f \in Fs
      PROVE  EntryInv(f)'
  BY DEF IInv, EntryInv
<1>7. QED
  BY <1>1, <1>3, <1>4, <1>5, <1>6 DEF IInv

LEMMA ServerActions ==
  ASSUME IInv, NEW s \in Servers,
         StartRemote(s) \/ Signal(s) \/ Crash(s) \/ ServerStep(s)
  PROVE  IInv'
<1>1. /\ server \in [Servers -> Server] /\ server[s] \in Server
      /\ ServerInv(s) /\ Up \subseteq Servers
  BY DEF IInv, TypeOK, Up
<1>2. s \in Up <=> server[s].proc = "on" /\ server[s].listener = "up"
  BY DEF Up, On
<1>3. CASE StartRemote(s)
  <2>1. UNCHANGED <<world, call, message, ran, exit>>
    BY <1>3 DEF StartRemote, EntryUnchanged
  <2>2. server' \in [Servers -> Server] /\ \A t \in Servers \ {s} : server'[t] = server[t]
    BY <1>1, <1>3, GoneFacts DEF StartRemote, Server
  <2>3. ServerInv(s)'
    BY <1>1, <1>3, GoneFacts DEF StartRemote, ServerInv, On, Server, Fresh, Gone
  <2>4. KeepsAddress(s)
    BY <1>1, <1>2, <1>3, GoneFacts DEF StartRemote, ServerInv, On, Server, Fresh, KeepsAddress
  <2>5. QED
    BY <2>1, <2>2, <2>3, <2>4, ServerChange
<1>4. CASE Signal(s)
  <2>1. UNCHANGED <<world, call, message, ran, exit>>
    BY <1>4 DEF Signal, EntryUnchanged
  <2>2. server' \in [Servers -> Server] /\ \A t \in Servers \ {s} : server'[t] = server[t]
    BY <1>1, <1>4, GoneFacts DEF Signal, Server
  <2>3. ServerInv(s)'
    BY <1>1, <1>4, GoneFacts DEF Signal, ServerInv, On, Server, Fresh, Gone
  <2>4. KeepsAddress(s)
    BY <1>1, <1>2, <1>4, GoneFacts DEF Signal, ServerInv, On, Server, Fresh, KeepsAddress
  <2>5. QED
    BY <2>1, <2>2, <2>3, <2>4, ServerChange
<1>5. CASE Crash(s)
  <2>1. UNCHANGED <<world, call, message, ran, exit>>
    BY <1>5 DEF Crash, EntryUnchanged
  <2>2. server' \in [Servers -> Server] /\ \A t \in Servers \ {s} : server'[t] = server[t]
    BY <1>1, <1>5, GoneFacts DEF Crash, Server
  <2>3. server'[s] = Gone /\ server[s] # Gone
    BY <1>1, <1>5, GoneFacts DEF Crash, On
  <2>4. ServerInv(s)'
    BY <2>3, GoneFacts DEF ServerInv, Fresh, Gone
  <2>5. KeepsAddress(s)
    BY <2>3, GoneFacts DEF KeepsAddress
  <2>6. QED
    BY <2>1, <2>2, <2>3, <2>4, <2>5, ServerChange
<1>6. CASE Bind(s)
  <2>1. UNCHANGED <<world, call, message, ran, exit>>
    BY <1>6 DEF Bind, EntryUnchanged
  <2>2. server' \in [Servers -> Server] /\ \A t \in Servers \ {s} : server'[t] = server[t]
    BY <1>1, <1>6, GoneFacts DEF Bind, Server
  <2>3. ServerInv(s)'
    BY <1>1, <1>6, GoneFacts DEF Bind, ServerInv, On, Server, Fresh, Gone
  <2>4. KeepsAddress(s)
    BY <1>1, <1>2, <1>6, GoneFacts DEF Bind, ServerInv, On, Server, Fresh, KeepsAddress
  <2>5. QED
    BY <2>1, <2>2, <2>3, <2>4, ServerChange
<1>7. CASE StartReturns(s)
  <2>1. UNCHANGED <<world, call, message, ran, exit>>
    BY <1>7 DEF StartReturns, EntryUnchanged
  <2>2. server' \in [Servers -> Server] /\ \A t \in Servers \ {s} : server'[t] = server[t]
    BY <1>1, <1>7, GoneFacts DEF StartReturns, Server
  <2>3. ServerInv(s)'
    BY <1>1, <1>7, GoneFacts DEF StartReturns, ServerInv, On, Server, Fresh, Gone
  <2>4. KeepsAddress(s)
    BY <1>1, <1>2, <1>7, GoneFacts DEF StartReturns, ServerInv, On, Server, Fresh, KeepsAddress
  <2>5. QED
    BY <2>1, <2>2, <2>3, <2>4, ServerChange
<1>8. CASE StopWatching(s)
  <2>1. UNCHANGED <<world, call, message, ran, exit>>
    BY <1>8 DEF StopWatching, EntryUnchanged
  <2>2. server' \in [Servers -> Server] /\ \A t \in Servers \ {s} : server'[t] = server[t]
    BY <1>1, <1>8, GoneFacts DEF StopWatching, Server
  <2>3. ServerInv(s)'
    BY <1>1, <1>8, GoneFacts DEF StopWatching, ServerInv, On, Server, Fresh, Gone
  <2>4. KeepsAddress(s)
    BY <1>1, <1>2, <1>8, GoneFacts DEF StopWatching, ServerInv, On, Server, Fresh, KeepsAddress
  <2>5. QED
    BY <2>1, <2>2, <2>3, <2>4, ServerChange
<1>9. CASE Watch(s)
  <2>1. UNCHANGED <<world, call, message, ran, exit>>
    BY <1>9 DEF Watch, EntryUnchanged
  <2>2. server' \in [Servers -> Server] /\ \A t \in Servers \ {s} : server'[t] = server[t]
    BY <1>1, <1>9, GoneFacts DEF Watch, Server
  <2>3. ServerInv(s)'
    BY <1>1, <1>9, GoneFacts DEF Watch, ServerInv, On, Server, Fresh, Gone
  <2>4. KeepsAddress(s)
    BY <1>1, <1>2, <1>9, GoneFacts DEF Watch, ServerInv, On, Server, Fresh, KeepsAddress
  <2>5. QED
    BY <2>1, <2>2, <2>3, <2>4, ServerChange
<1>10. CASE WatchEnds(s)
  <2>1. UNCHANGED <<world, call, message, ran, exit>>
    BY <1>10 DEF WatchEnds, EntryUnchanged
  <2>2. server' \in [Servers -> Server] /\ \A t \in Servers \ {s} : server'[t] = server[t]
    BY <1>1, <1>10, GoneFacts DEF WatchEnds, Server
  <2>3. ServerInv(s)'
    BY <1>1, <1>10, GoneFacts DEF WatchEnds, ServerInv, On, Server, Fresh, Gone
  <2>4. KeepsAddress(s)
    BY <1>1, <1>2, <1>10, GoneFacts DEF WatchEnds, ServerInv, On, Server, Fresh, KeepsAddress
  <2>5. QED
    BY <2>1, <2>2, <2>3, <2>4, ServerChange
<1>11. CASE Exit(s)
  <2>1. UNCHANGED <<world, call, message, ran, exit>>
    BY <1>11 DEF Exit, EntryUnchanged
  <2>2. server' \in [Servers -> Server] /\ \A t \in Servers \ {s} : server'[t] = server[t]
    BY <1>1, <1>11, GoneFacts DEF Exit, Server
  <2>3. server'[s] = Gone /\ server[s] # Gone
    BY <1>1, <1>11, GoneFacts DEF Exit, On
  <2>4. ServerInv(s)'
    BY <2>3, GoneFacts DEF ServerInv, Fresh, Gone
  <2>5. KeepsAddress(s)
    BY <2>3, GoneFacts DEF KeepsAddress
  <2>6. QED
    BY <2>1, <2>2, <2>3, <2>4, <2>5, ServerChange
<1>12. QED
  BY <1>3, <1>4, <1>5, <1>6, <1>7, <1>8, <1>9, <1>10, <1>11 DEF ServerStep
-----------------------------------------------------------------------------

\* A handler fills the channel of the server it runs in, and changes nothing
\* else of it.
Fills(s) == s \in Up /\ server'[s] = [server[s] EXCEPT !.done = 1]

\* A step of the call of c, and of its handler, keeps IInv if it keeps what c
\* knows of its server and, for an entry, what the handler has done.
LEMMA CallChange ==
  ASSUME IInv, NEW c \in Closers \cup Fs,
         UNCHANGED world,
         server' \in [Servers -> Server],
         \A t \in Servers : server'[t] = server[t] \/ Fills(t),
         call' \in [Closers \cup Fs -> Call],
         \A d \in (Closers \cup Fs) \ {c} : call'[d] = call[d],
         message' \in [Fs -> Message \cup {NoMessage}],
         ran' \in [Fs -> Seq(Runs)], \A f \in Fs : Len(ran'[f]) <= 2,
         exit' \in [Fs -> Exits \cup {NoExit}],
         \A g \in Fs \ {c} :
           message'[g] = message[g] /\ ran'[g] = ran[g] /\ exit'[g] = exit[g],
         CallInv(c)',
         c \in Fs => EntryInv(c)'
  PROVE  IInv'
<1>1. TypeOK'
  BY DEF IInv, TypeOK, world
<1>2. server \in [Servers -> Server]
  BY DEF IInv, TypeOK
<1>3. ASSUME NEW t \in Servers
      PROVE  /\ t \in Up' <=> t \in Up
             /\ server'[t].watch = server[t].watch
             /\ server[t] = Gone => server'[t] = Gone
             /\ ServerInv(t)'
  <2>1. server[t] \in Server /\ ServerInv(t)
    BY <1>2 DEF IInv
  <2>2. CASE server'[t] = server[t]
    BY <2>1, <2>2 DEF Up, On, ServerInv
  <2>3. CASE Fills(t)
    BY <2>1, <2>3, GoneFacts DEF Fills, Up, On, ServerInv, Server
  <2>4. QED
    BY <2>2, <2>3
<1>4. \A t, u \in Up' : t = u
  BY <1>3 DEF IInv, Up
<1>5. ASSUME NEW d \in Closers \cup Fs
      PROVE  CallInv(d)'
  BY <1>3 DEF IInv, CallInv
<1>6. ASSUME NEW f \in Fs
      PROVE  EntryInv(f)'
  BY DEF IInv, EntryInv
<1>7. QED
  BY <1>1, <1>3, <1>4, <1>5, <1>6 DEF IInv
\* Only how the call of c goes on changes.
LEMMA GoesFacts ==
  ASSUME IInv, NEW c \in Closers \cup Fs,
         NEW at \in {"idle", "connected", "local", "closing", "running", "parent",
                    "answer", "failed", "ok", "error"},
         Goes(c, at)
  PROVE  /\ call' \in [Closers \cup Fs -> Call]
         /\ call'[c].at = at /\ call'[c].peer = call[c].peer
         /\ \A d \in (Closers \cup Fs) \ {c} : call'[d] = call[d]
<1>1. call \in [Closers \cup Fs -> Call] /\ call[c] \in Call
  BY DEF IInv, TypeOK
<1>2. QED
  BY <1>1 DEF Goes, Call

\* The call of c is made to server s.
LEMMA MadeTo ==
  ASSUME IInv, NEW c \in Closers \cup Fs, NEW at \in {"close", "entry"}, NEW s \in Up,
         call' = [call EXCEPT ![c] = [at |-> at, peer |-> s]]
  PROVE  /\ call' \in [Closers \cup Fs -> Call]
         /\ call'[c].at = at /\ call'[c].peer = s
         /\ \A d \in (Closers \cup Fs) \ {c} : call'[d] = call[d]
<1>1. call \in [Closers \cup Fs -> Call] /\ s \in Servers
  BY DEF IInv, TypeOK, Up
<1>2. [at |-> at, peer |-> s] \in Call
  BY <1>1 DEF Call
<1>3. QED
  BY <1>1, <1>2

LEMMA CloserActions ==
  ASSUME IInv, NEW c \in Closers,
         Close(c) \/ CheckDone(c) \/ CloseDone(c) \/ CloseServer(c)
  PROVE  IInv'
<1>1. c \notin Fs
  BY Apart
<1>2. UNCHANGED <<world, message, ran, exit>>
  BY DEF Close, CheckDone, CloseDone, CloseServer, EntryUnchanged
<1>3. /\ server \in [Servers -> Server] /\ Up \subseteq Servers /\ CallInv(c)
      /\ message \in [Fs -> Message \cup {NoMessage}]
      /\ ran \in [Fs -> Seq(Runs)] /\ \A f \in Fs : Len(ran[f]) <= 2
      /\ exit \in [Fs -> Exits \cup {NoExit}]
  BY DEF IInv, TypeOK, Up
<1>4. CASE Close(c)
  <2>1. server' = server /\ Up' = Up
    BY <1>4 DEF Close, Up, On
  <2>2. /\ call' \in [Closers \cup Fs -> Call]
        /\ \A d \in (Closers \cup Fs) \ {c} : call'[d] = call[d]
        /\ \/ call'[c].at = "close" /\ call'[c].peer \in Up
           \/ call'[c].at = "error" /\ call'[c].peer = call[c].peer
    BY <1>4, MadeTo, GoesFacts DEF Close
  <2>3. CallInv(c)'
    BY <1>3, <1>4, <2>1, <2>2 DEF Close, CallInv, Pending
  <2>4. QED
    BY <1>1, <1>2, <1>3, <2>1, <2>2, <2>3, CallChange
<1>5. CASE CheckDone(c) \/ CloseDone(c) \/ CloseServer(c)
  <2>1. PICK at \in {"answer", "closing", "failed"} : Goes(c, at)
    BY <1>5 DEF CheckDone, CloseDone, CloseServer
  <2>2. /\ call' \in [Closers \cup Fs -> Call]
        /\ call'[c].at = at /\ call'[c].peer = call[c].peer
        /\ \A d \in (Closers \cup Fs) \ {c} : call'[d] = call[d]
    BY <2>1, GoesFacts
  <2>3. call[c].at \in Pending /\ call[c].peer \in Up
    BY <1>5, ServesFrom DEF CheckDone, CloseDone, CloseServer, At, Pending
  <2>4. /\ server' \in [Servers -> Server]
        /\ \A t \in Servers : server'[t] = server[t] \/ Fills(t)
    <3>1. CASE server' = server
      BY <1>3, <3>1
    <3>2. CASE server' = [server EXCEPT ![call[c].peer].done = 1]
      <4> DEFINE s == call[c].peer
      <4>1. s \in Up /\ s \in Servers /\ server[s] \in Server
        BY <1>3, <2>3
      <4>2. [server[s] EXCEPT !.done = 1] \in Server
        BY <4>1 DEF Server
      <4>3. server' = [server EXCEPT ![s] = [server[s] EXCEPT !.done = 1]]
        BY <3>2
      <4>4. QED
        BY <1>3, <4>1, <4>2, <4>3 DEF Fills
    <3>3. QED
      BY <1>5, <3>1, <3>2 DEF CheckDone, CloseDone, CloseServer
  <2>5. \A t \in Servers : /\ t \in Up => t \in Up'
                           /\ server'[t].watch = server[t].watch
                           /\ server[t] = Gone => server'[t] = Gone
    BY <1>3, <2>4, GoneFacts DEF Fills, Up, On, Server
  <2>6. CallInv(c)'
    BY <1>3, <2>2, <2>3, <2>5 DEF CallInv, Pending
  <2>7. QED
    BY <1>1, <1>2, <1>3, <2>2, <2>4, <2>6, CallChange
<1>6. QED
  BY <1>4, <1>5

\* An answer, or a connection that is lost: of an entry, or of Close().
LEMMA ReturnActions ==
  ASSUME IInv, NEW c \in Closers \cup Fs, Answer(c) \/ Lost(c)
  PROVE  IInv'
<1>1. PICK at \in {"ok", "error"} :
        /\ Goes(c, at) /\ call[c].at \in Pending
        /\ at = "ok" => call[c].at = "answer"
  BY DEF Answer, Lost, At, Pending
<1>2. /\ call' \in [Closers \cup Fs -> Call]
      /\ call'[c].at = at /\ call'[c].peer = call[c].peer
      /\ \A d \in (Closers \cup Fs) \ {c} : call'[d] = call[d]
  BY <1>1, GoesFacts
<1>3. UNCHANGED <<world, server, message, ran, exit>>
  BY DEF Answer, Lost, EntryUnchanged
<1>4. /\ server \in [Servers -> Server] /\ CallInv(c)
      /\ message \in [Fs -> Message \cup {NoMessage}]
      /\ ran \in [Fs -> Seq(Runs)] /\ \A f \in Fs : Len(ran[f]) <= 2
      /\ exit \in [Fs -> Exits \cup {NoExit}]
  BY DEF IInv, TypeOK
<1>5. CallInv(c)'
  <2>1. Up' = Up
    BY <1>3 DEF Up, On
  <2>2. QED
    BY <1>1, <1>2, <1>3, <1>4, <2>1 DEF CallInv, Pending
<1>6. c \in Fs => EntryInv(c)'
  BY <1>1, <1>2, <1>3 DEF IInv, EntryInv, Pending
<1>7. QED
  BY <1>2, <1>3, <1>4, <1>5, <1>6, CallChange

\* f reaches a remote, or goes on without.
LEMMA ConnectIInv ==
  ASSUME IInv, NEW f \in Fs, Connect(f)
  PROVE  IInv'
<1>1. PICK at \in {"connected", "local"} : Goes(f, at) /\ call[f].at = "idle"
  BY DEF Connect
<1>2. /\ call' \in [Closers \cup Fs -> Call]
      /\ call'[f].at = at /\ call'[f].peer = call[f].peer
      /\ \A d \in (Closers \cup Fs) \ {f} : call'[d] = call[d]
  BY <1>1, GoesFacts
<1>3. UNCHANGED <<world, server, message, ran, exit>>
  BY DEF Connect, EntryUnchanged
<1>4. /\ server \in [Servers -> Server] /\ CallInv(f)
      /\ message \in [Fs -> Message \cup {NoMessage}]
      /\ ran \in [Fs -> Seq(Runs)] /\ \A g \in Fs : Len(ran[g]) <= 2
      /\ exit \in [Fs -> Exits \cup {NoExit}]
  BY DEF IInv, TypeOK
<1>5. CallInv(f)'
  <2>1. Up' = Up
    BY <1>3 DEF Up, On
  <2>2. QED
    BY <1>2, <1>3, <1>4, <2>1, Apart DEF CallInv, Pending
<1>6. EntryInv(f)'
  BY <1>1, <1>2, <1>3 DEF IInv, EntryInv
<1>7. QED
  BY <1>2, <1>3, <1>4, <1>5, <1>6, CallChange

\* The entry is on its way to whoever holds the address, or nobody is there.
LEMMA HandleEntryIInv ==
  ASSUME IInv, NEW f \in Fs, HandleEntry(f)
  PROVE  IInv'
<1>1. PICK e \in Entry, o \in Options :
        /\ message' = [message EXCEPT ![f] = Serialize(build[f], e, o)]
        /\ \/ \E s \in Up : call' = [call EXCEPT ![f] = [at |-> "entry", peer |-> s]]
           \/ Goes(f, "error")
  BY DEF HandleEntry
<1>2. /\ call' \in [Closers \cup Fs -> Call]
      /\ \/ call'[f].at = "entry" /\ call'[f].peer \in Up
         \/ call'[f].at = "error" /\ call'[f].peer = call[f].peer
      /\ \A d \in (Closers \cup Fs) \ {f} : call'[d] = call[d]
  BY <1>1, MadeTo, GoesFacts
<1>3. UNCHANGED <<world, server, ran, exit>> /\ call[f].at = "connected"
  BY DEF HandleEntry
<1>4. /\ server \in [Servers -> Server] /\ CallInv(f) /\ build \in Builds
      /\ message \in [Fs -> Message \cup {NoMessage}] /\ Up \subseteq Servers
      /\ ran \in [Fs -> Seq(Runs)] /\ \A g \in Fs : Len(ran[g]) <= 2
      /\ exit \in [Fs -> Exits \cup {NoExit}]
  BY DEF IInv, TypeOK, Up
<1>5. /\ message' \in [Fs -> Message \cup {NoMessage}] /\ message'[f] # NoMessage
      /\ \A g \in Fs \ {f} : message'[g] = message[g]
  <2>1. Serialize(build[f], e, o) \in Message
    BY <1>4, SerializeType
  <2>2. QED
    BY <1>1, <1>4, <2>1, Apart
<1>6. CallInv(f)'
  <2>1. Up' = Up
    BY <1>3 DEF Up, On
  <2>2. QED
    BY <1>2, <1>3, <1>4, <2>1, Apart DEF CallInv, Pending
<1>7. EntryInv(f)'
  BY <1>2, <1>3, <1>5 DEF IInv, EntryInv
<1>8. QED
  BY <1>2, <1>3, <1>4, <1>5, <1>6, <1>7, CallChange

LEMMA RefuseIInv ==
  ASSUME IInv, NEW f \in Fs, Refuse(f)
  PROVE  IInv'
<1>1. Goes(f, "failed") /\ call[f].at = "entry"
  BY DEF Refuse, At
<1>2. /\ call' \in [Closers \cup Fs -> Call]
      /\ call'[f].at = "failed" /\ call'[f].peer = call[f].peer
      /\ \A d \in (Closers \cup Fs) \ {f} : call'[d] = call[d]
  BY <1>1, GoesFacts
<1>3. UNCHANGED <<world, server, message, ran, exit>>
  BY DEF Refuse, EntryUnchanged
<1>4. /\ server \in [Servers -> Server] /\ CallInv(f)
      /\ message \in [Fs -> Message \cup {NoMessage}]
      /\ ran \in [Fs -> Seq(Runs)] /\ \A g \in Fs : Len(ran[g]) <= 2
      /\ exit \in [Fs -> Exits \cup {NoExit}]
  BY DEF IInv, TypeOK
<1>5. CallInv(f)'
  <2>1. Up' = Up
    BY <1>3 DEF Up, On
  <2>2. QED
    BY <1>1, <1>2, <1>3, <1>4, <2>1, Apart DEF CallInv, Pending
<1>6. EntryInv(f)'
  BY <1>1, <1>2, <1>3 DEF IInv, EntryInv
<1>7. QED
  BY <1>2, <1>3, <1>4, <1>5, <1>6, CallChange

\* The first program runs.
LEMMA LaunchIInv ==
  ASSUME IInv, NEW f \in Fs, Launch(f)
  PROVE  IInv'
<1>1. PICK at \in {"answer", "running"} : Goes(f, at)
  BY DEF Launch
<1>2. /\ call' \in [Closers \cup Fs -> Call]
      /\ call'[f].at = at /\ call'[f].peer = call[f].peer
      /\ \A d \in (Closers \cup Fs) \ {f} : call'[d] = call[d]
  BY <1>1, GoesFacts
<1>3. /\ UNCHANGED <<world, server, message, exit>> /\ call[f].at = "entry"
      /\ ran' = [ran EXCEPT ![f] = Append(ran[f], Wanted(message[f]))]
      /\ Wanted(message[f]) # NoRun
  BY DEF Launch, At
<1>4. /\ server \in [Servers -> Server] /\ CallInv(f) /\ EntryInv(f)
      /\ message \in [Fs -> Message \cup {NoMessage}]
      /\ ran \in [Fs -> Seq(Runs)] /\ \A g \in Fs : Len(ran[g]) <= 2
      /\ exit \in [Fs -> Exits \cup {NoExit}]
  BY DEF IInv, TypeOK
<1>5. ran[f] = <<>> /\ exit[f] = NoExit /\ message[f] \in Message
  BY <1>3, <1>4 DEF EntryInv
<1>6. Wanted(message[f]) \in Runs
  BY <1>3, <1>5, WantedType
<1>7. /\ ran' \in [Fs -> Seq(Runs)] /\ Len(ran'[f]) = 1
      /\ \A g \in Fs \ {f} : ran'[g] = ran[g]
      /\ \A g \in Fs : Len(ran'[g]) <= 2
  <2>1. Append(ran[f], Wanted(message[f])) \in Seq(Runs)
        /\ Len(Append(ran[f], Wanted(message[f]))) = 1
    BY <1>4, <1>5, <1>6
  <2>2. QED
    BY <1>3, <1>4, <2>1
<1>8. call[f].peer \in Servers
  BY <1>3, <1>4 DEF CallInv, Pending
<1>9. CallInv(f)'
  <2>1. Up' = Up
    BY <1>3 DEF Up, On
  <2>2. QED
    BY <1>2, <1>3, <1>4, <1>8, <2>1, Apart DEF CallInv, Pending
<1>10. EntryInv(f)'
  BY <1>2, <1>3, <1>4, <1>5, <1>7, <1>8 DEF EntryInv
<1>11. QED
  BY <1>2, <1>3, <1>4, <1>7, <1>9, <1>10, CallChange

\* A program ends: the last one, or one that has nothing to open the path with.
LEMMA ProgramEndsIInv ==
  ASSUME IInv, NEW f \in Fs, NEW e \in Exits, ProgramEnds(f, e)
  PROVE  IInv'
<1>1. PICK at \in {"parent", "answer", "failed"} :
        /\ Goes(f, at)
        /\ \/ at = "parent" /\ ran' = [ran EXCEPT ![f] = Append(ran[f], ParentRun)]
              /\ call[f].at = "running"
           \/ at # "parent" /\ ran' = ran /\ call[f].at \in {"running", "parent"}
  BY DEF ProgramEnds, At
<1>2. /\ call' \in [Closers \cup Fs -> Call]
      /\ call'[f].at = at /\ call'[f].peer = call[f].peer
      /\ \A d \in (Closers \cup Fs) \ {f} : call'[d] = call[d]
  BY <1>1, GoesFacts
<1>3. UNCHANGED <<world, server, message>> /\ exit' = [exit EXCEPT ![f] = e]
  BY DEF ProgramEnds
<1>4. /\ server \in [Servers -> Server] /\ CallInv(f) /\ EntryInv(f)
      /\ message \in [Fs -> Message \cup {NoMessage}]
      /\ ran \in [Fs -> Seq(Runs)] /\ \A g \in Fs : Len(ran[g]) <= 2
      /\ exit \in [Fs -> Exits \cup {NoExit}]
  BY DEF IInv, TypeOK
<1>5. /\ ran' \in [Fs -> Seq(Runs)] /\ Len(ran'[f]) >= 1
      /\ at = "parent" => Len(ran'[f]) = 2
      /\ \A g \in Fs \ {f} : ran'[g] = ran[g]
      /\ \A g \in Fs : Len(ran'[g]) <= 2
  <2>1. ParentRun \in Runs
    BY DEF ParentRun, Run, Runs
  <2>2. ran[f] \in Seq(Runs) /\ Len(ran[f]) >= 1
    <3>1. Len(ran[f]) = 1 \/ Len(ran[f]) = 2
      BY <1>1, <1>4, Zenon DEF EntryInv
    <3>2. ran[f] \in Seq(Runs)
      BY <1>4
    <3>3. QED
      BY <3>1, <3>2, LenFacts, Zenon
  <2>3. CASE at = "parent"
    <3>1. Len(ran[f]) = 1
      BY <1>1, <1>4, <2>3 DEF EntryInv
    <3>2. /\ Append(ran[f], ParentRun) \in Seq(Runs)
          /\ Len(Append(ran[f], ParentRun)) = 2
      <4>1. Len(Append(ran[f], ParentRun)) = Len(ran[f]) + 1
        BY <2>1, <2>2, AppendFacts
      <4>2. QED
        BY <2>1, <2>2, <3>1, <4>1, AppendFacts
    <3>3. ran' = [ran EXCEPT ![f] = Append(ran[f], ParentRun)]
      BY <1>1, <2>3
    <3>4. QED
      BY <1>4, <3>2, <3>3
  <2>4. CASE at # "parent"
    BY <1>1, <1>4, <2>2, <2>4
  <2>5. QED
    BY <2>3, <2>4
<1>6. call[f].peer \in Servers
  BY <1>1, <1>4 DEF CallInv, Pending
<1>7. CallInv(f)'
  <2>1. Up' = Up
    BY <1>3 DEF Up, On
  <2>2. QED
    BY <1>2, <1>3, <1>4, <1>6, <2>1, Apart DEF CallInv, Pending
<1>8. EntryInv(f)'
  <2>1. message'[f] # NoMessage
    BY <1>1, <1>3, <1>4 DEF EntryInv
  <2>2. ran'[f] # <<>>
    <3>1. ran'[f] \in Seq(Runs) /\ Len(ran'[f]) # 0
      BY <1>5
    <3>2. QED
      BY <3>1, LenFacts, Zenon
  <2>3. QED
    BY <1>2, <1>5, <1>6, <2>1, <2>2 DEF EntryInv
<1>9. exit' \in [Fs -> Exits \cup {NoExit}] /\ \A g \in Fs \ {f} : exit'[g] = exit[g]
  BY <1>3, <1>4
<1>10. QED
  BY <1>2, <1>3, <1>4, <1>5, <1>7, <1>8, <1>9, CallChange

LEMMA NextIInv == IInv /\ [Next]_vars => IInv'
<1> SUFFICES ASSUME IInv, [Next]_vars
             PROVE  IInv'
  OBVIOUS
<1>1. ASSUME NEW s \in Servers, StartRemote(s) \/ Signal(s) \/ Crash(s) \/ ServerStep(s)
      PROVE  IInv'
  BY <1>1, ServerActions
<1>2. ASSUME NEW c \in Closers, Close(c)
      PROVE  IInv'
  BY <1>2, CloserActions
<1>3. ASSUME NEW f \in Fs, Connect(f) \/ HandleEntry(f)
      PROVE  IInv'
  BY <1>3, ConnectIInv, HandleEntryIInv
<1>4. ASSUME NEW c \in Closers \cup Fs, Handler(c)
      PROVE  IInv'
  BY <1>4, CloserActions, RefuseIInv, LaunchIInv, ProgramEndsIInv, ReturnActions DEF Handler
<1>5. CASE UNCHANGED vars
  BY <1>5 DEF vars, world, IInv, TypeOK, Up, On, ServerInv, CallInv, EntryInv
<1>6. QED
  BY <1>1, <1>2, <1>3, <1>4, <1>5 DEF Next

(***************************************************************************)
(* At most one process serves the remote at a time, and what processes,    *)
(* handlers and callers have done so far agrees with what the others know  *)
(* of it, whatever starts, is interrupted, killed or crashes.              *)
(***************************************************************************)
THEOREM Invariance == Spec => []IInv
BY InitIInv, NextIInv, PTL DEF Spec

(***************************************************************************)
(* The variables have their types: at most two programs run for an entry.  *)
(***************************************************************************)
THEOREM TypeCorrect == Spec => []TypeOK
<1>1. IInv => TypeOK
  BY DEF IInv
<1>2. QED
  BY <1>1, Invariance, PTL

-----------------------------------------------------------------------------

\* The call of f, and its handler, take a step.
EntryStep(f) ==
  \/ Connect(f) \/ HandleEntry(f) \/ Refuse(f) \/ Launch(f)
  \/ \E e \in Exits : ProgramEnds(f, e)
  \/ Answer(f) \/ Lost(f)

Keeps(f) ==
  call'[f] = call[f] /\ message'[f] = message[f] /\ ran'[f] = ran[f] /\ exit'[f] = exit[f]

\* One step is of the entry of one f at most.
LEMMA Steps ==
  ASSUME IInv, [Next]_vars
  PROVE  /\ build' = build
         /\ \/ \A g \in Fs : Keeps(g)
            \/ \E f \in Fs : EntryStep(f) /\ \A g \in Fs \ {f} : Keeps(g)
<1>1. CASE \E s \in Servers : StartRemote(s) \/ Signal(s) \/ Crash(s) \/ ServerStep(s)
  BY <1>1 DEF StartRemote, Signal, Crash, ServerStep, Bind, StartReturns, StopWatching,
              Watch, WatchEnds, Exit, world, EntryUnchanged, Keeps
<1>2. ASSUME NEW c \in Closers, Close(c) \/ CheckDone(c) \/ CloseDone(c) \/ CloseServer(c)
      PROVE  build' = build /\ \A g \in Fs : Keeps(g)
  <2>1. \A g \in Fs : call'[g] = call[g]
    <3>1. PICK r : call' = [call EXCEPT ![c] = r]
      BY <1>2, Zenon DEF Close, CheckDone, CloseDone, CloseServer, Goes
    <3>2. call \in [Closers \cup Fs -> Call]
      BY DEF IInv, TypeOK
    <3>3. QED
      BY <3>1, <3>2, Apart
  <2>2. QED
    BY <1>2, <2>1 DEF Close, CheckDone, CloseDone, CloseServer, world, EntryUnchanged, Keeps
<1>3. ASSUME NEW f \in Fs, EntryStep(f)
      PROVE  build' = build /\ \A g \in Fs \ {f} : Keeps(g)
  <2>1. build' = build
    BY <1>3 DEF EntryStep, Connect, HandleEntry, Refuse, Launch, ProgramEnds, Answer,
                Lost, world
  <2>2. ASSUME NEW g \in Fs \ {f}
        PROVE  Keeps(g)
    <3>1. /\ call \in [Closers \cup Fs -> Call] /\ ran \in [Fs -> Seq(Runs)]
          /\ message \in [Fs -> Message \cup {NoMessage}]
          /\ exit \in [Fs -> Exits \cup {NoExit}]
      BY DEF IInv, TypeOK
    <3>2. QED
      BY <1>3, <3>1 DEF EntryStep, Connect, HandleEntry, Refuse, Launch, ProgramEnds,
                        Answer, Lost, Goes, EntryUnchanged, Keeps
  <2>3. QED
    BY <2>1, <2>2
<1>4. ASSUME NEW c \in Closers \cup Fs, Answer(c) \/ Lost(c), c \notin Fs
      PROVE  build' = build /\ \A g \in Fs : Keeps(g)
  <2>1. call \in [Closers \cup Fs -> Call]
    BY DEF IInv, TypeOK
  <2>2. QED
    BY <1>4, <2>1 DEF Answer, Lost, Goes, world, EntryUnchanged, Keeps
<1>5. CASE UNCHANGED vars
  BY <1>5 DEF vars, world, Keeps
<1>6. ASSUME NEW c \in Closers \cup Fs, Handler(c)
      PROVE  \/ c \in Closers /\ (CheckDone(c) \/ CloseDone(c) \/ CloseServer(c))
             \/ c \in Fs /\ EntryStep(c)
             \/ (Answer(c) \/ Lost(c)) /\ c \notin Fs
  BY <1>6 DEF Handler, EntryStep
<1>7. \A f \in Fs : Connect(f) \/ HandleEntry(f) => EntryStep(f)
  BY DEF EntryStep
<1>8. QED
  BY <1>1, <1>2, <1>3, <1>4, <1>5, <1>6, <1>7 DEF Next

\* What is sent is of the build of f; what ran for it, and what f is told, goes
\* back to it.
History(f) ==
  /\ message[f] # NoMessage => message[f].version = build[f].version
  /\ ran[f] # <<>> =>
       /\ build[call[f].peer].version = build[f].version
       /\ ran[f][1] = Wanted(message[f])
       /\ Len(ran[f]) > 1 => ran[f][2] = ParentRun /\ ran[f][1] = Run("xdg-open", "it")
  /\ call[f].at \in {"answer", "ok"} /\ exit[f] # 0 =>
       exit[f] = NoExit /\ Started(ran[f][1])

LEMMA InitHistory == Init => \A f \in Fs : History(f)
BY DEF Init, NoCall, History

\* The parent is opened only after a path.
LEMMA FallsBackFacts ==
  ASSUME NEW m \in Message, NEW e, FallsBack(m.type, m.options, e)
  PROVE  Wanted(m) = Run("xdg-open", "it")
<1>1. Deserialize(m).type = "path" /\ m.options = ""
  BY DEF FallsBack, Deserialize
<1>2. PathRun(m.options, Deserialize(m).data) = Run("xdg-open", "it")
  BY <1>1, Zenon DEF PathRun
<1>3. QED
  BY <1>1, <1>2, Zenon DEF Wanted, FirstRun

LEMMA NextHistory ==
  ASSUME IInv, IInv', [Next]_vars, \A f \in Fs : History(f),
         NEW f \in Fs
  PROVE  History(f)'
<1>1. History(f) /\ EntryInv(f) /\ EntryInv(f)' /\ build' = build
  BY Steps DEF IInv
<1>2. /\ call \in [Closers \cup Fs -> Call] /\ ran[f] \in Seq(Runs)
      /\ ran \in [Fs -> Seq(Runs)] /\ message \in [Fs -> Message \cup {NoMessage}]
      /\ exit \in [Fs -> Exits \cup {NoExit}]
  BY DEF IInv, TypeOK
<1>3. CASE Keeps(f)
  BY <1>1, <1>3 DEF Keeps, History
<1>4. CASE Connect(f) \/ Refuse(f) \/ Answer(f) \/ Lost(f)
  <2>1. PICK at \in {"connected", "local", "failed", "ok", "error"} :
          Goes(f, at) /\ (at = "ok" => call[f].at = "answer")
    BY <1>4 DEF Connect, Refuse, Answer, Lost, At
  <2>2. call'[f].at = at /\ call'[f].peer = call[f].peer
    BY <2>1, GoesFacts
  <2>3. message' = message /\ ran' = ran /\ exit' = exit
    BY <1>4 DEF Connect, Refuse, Answer, Lost, EntryUnchanged
  <2>4. QED
    BY <1>1, <2>1, <2>2, <2>3 DEF History
<1>5. CASE HandleEntry(f)
  <2>1. PICK e \in Entry, o \in Options :
          /\ message' = [message EXCEPT ![f] = Serialize(build[f], e, o)]
          /\ \/ \E s \in Up : call' = [call EXCEPT ![f] = [at |-> "entry", peer |-> s]]
             \/ Goes(f, "error")
    BY <1>5 DEF HandleEntry
  <2>2. ran[f] = <<>> /\ ran' = ran
    BY <1>1, <1>5 DEF HandleEntry, EntryInv
  <2>3. call'[f].at \in {"entry", "error"}
    BY <2>1, MadeTo, GoesFacts
  <2>4. message'[f].version = build[f].version
    BY <1>2, <2>1 DEF Serialize
  <2>5. QED
    BY <1>1, <2>2, <2>3, <2>4 DEF History
<1>6. CASE Launch(f)
  <2>1. PICK at \in {"answer", "running"} :
          Goes(f, at) /\ (at = "answer" => Started(Wanted(message[f])))
    BY <1>6 DEF Launch
  <2>2. call'[f].at = at /\ call'[f].peer = call[f].peer
    BY <2>1, GoesFacts
  <2>3. /\ ran' = [ran EXCEPT ![f] = Append(ran[f], Wanted(message[f]))]
        /\ message' = message /\ exit' = exit
        /\ ran[f] = <<>> /\ exit[f] = NoExit /\ message[f] # NoMessage
    BY <1>1, <1>6 DEF Launch, At, EntryInv
  <2>4. ran'[f] = <<Wanted(message[f])>>
    BY <1>2, <2>3
  <2>5. build[call[f].peer].version = build[f].version
    BY <1>1, <1>6, <2>3 DEF Launch, Accepted, Deserializes, History
  <2>6. QED
    BY <1>1, <2>1, <2>2, <2>3, <2>4, <2>5 DEF History
<1>7. ASSUME NEW e \in Exits, ProgramEnds(f, e)
      PROVE  History(f)'
  <2>1. message' = message /\ exit'[f] = e
    BY <1>2, <1>7 DEF ProgramEnds
  <2>2. CASE /\ FallsBack(message[f].type, message[f].options, e) /\ At(f, "running")
             /\ ran' = [ran EXCEPT ![f] = Append(ran[f], ParentRun)]
             /\ Goes(f, "parent")
    <3>1. message[f] \in Message /\ Len(ran[f]) = 1 /\ ran[f] # <<>>
      BY <1>1, <1>2, <2>2 DEF EntryInv, At
    <3>2. ran[f][1] = Run("xdg-open", "it")
      BY <1>1, <2>2, <3>1, FallsBackFacts DEF History
    <3>3. ran'[f] = Append(ran[f], ParentRun) /\ ParentRun \in Runs
      BY <1>2, <2>2 DEF ParentRun, Run, Runs
    <3>4. ran'[f][1] = ran[f][1] /\ ran'[f][2] = ParentRun
      <4>1. /\ Append(ran[f], ParentRun)[Len(ran[f]) + 1] = ParentRun
            /\ Len(ran[f]) > 0 => Append(ran[f], ParentRun)[1] = ran[f][1]
        BY <1>2, <3>3, AppendFacts
      <4>2. QED
        BY <3>1, <3>3, <4>1
    <3>5. call'[f].at = "parent" /\ call'[f].peer = call[f].peer
      BY <2>2, GoesFacts
    <3>6. QED
      BY <1>1, <2>1, <3>1, <3>2, <3>4, <3>5 DEF History
  <2>3. CASE /\ Goes(f, IF e = 0 THEN "answer" ELSE "failed")
             /\ UNCHANGED ran
    <3>1. /\ call'[f].at = (IF e = 0 THEN "answer" ELSE "failed")
          /\ call'[f].peer = call[f].peer
      BY <2>3, GoesFacts
    <3>2. QED
      BY <1>1, <2>1, <2>3, <3>1 DEF History
  <2>4. QED
    BY <1>7, <2>2, <2>3 DEF ProgramEnds
<1>8. QED
  BY <1>3, <1>4, <1>5, <1>6, <1>7, Steps DEF EntryStep

\* The invariant, with the history of every entry.
FullInv == IInv /\ \A f \in Fs : History(f)

LEMMA FullInvariance == Spec => []FullInv
<1>1. Init => FullInv
  BY InitIInv, InitHistory DEF FullInv
<1>2. FullInv /\ [Next]_vars => FullInv'
  BY NextIInv, NextHistory DEF FullInv
<1>3. QED
  BY <1>1, <1>2, PTL DEF Spec

(***************************************************************************)
(* Programs run for an entry only in a process of the version of f, that   *)
(* of the entry first, then at most the fallback of xdg-open               *)
(* (DeserializeWithOption, Path.RemoteLaunch): whatever answers the ping   *)
(* when f starts, and whatever serves the call in the end.                 *)
(***************************************************************************)
THEOREM NoForeignLaunches == Spec => []NoForeignLaunch
<1>1. FullInv => NoForeignLaunch
  BY DEF FullInv, History, NoForeignLaunch
<1>2. QED
  BY <1>1, FullInvariance, PTL

(***************************************************************************)
(* When HandleEntry() returns nil, the last program run for the entry was  *)
(* one nobody waits for, or ended well.                                    *)
(***************************************************************************)
THEOREM OkMeansOpenedAlways == Spec => []OkMeansOpened
<1>1. FullInv => OkMeansOpened
  BY DEF FullInv, IInv, EntryInv, History, OkMeansOpened
<1>2. QED
  BY <1>1, FullInvariance, PTL

-----------------------------------------------------------------------------

\* The first program run is the one the message calls for, and the only one.
LEMMA LaunchesFacts ==
  FullInv => \A f \in Fs : Launches(f) = IF ran[f] = <<>> THEN 0 ELSE 1
<1> SUFFICES ASSUME FullInv, NEW f \in Fs
             PROVE  Launches(f) = IF ran[f] = <<>> THEN 0 ELSE 1
  OBVIOUS
<1> DEFINE S == {i \in DOMAIN ran[f] : ran[f][i] = Wanted(message[f])}
<1>1. /\ DOMAIN ran[f] = 1 .. Len(ran[f]) /\ Len(ran[f]) \in Nat
      /\ Len(ran[f]) <= 2
      /\ Len(ran[f]) = 0 <=> ran[f] = <<>>
      /\ History(f)
  <2>1. ran[f] \in Seq(Runs) /\ Len(ran[f]) <= 2 /\ History(f)
    BY DEF FullInv, IInv, TypeOK
  <2>2. /\ Len(ran[f]) \in Nat /\ DOMAIN ran[f] = 1 .. Len(ran[f])
        /\ Len(ran[f]) = 0 <=> ran[f] = <<>>
    BY <2>1, LenFacts, Zenon
  <2>3. QED
    BY <2>1, <2>2
<1>2. CASE ran[f] = <<>>
  <2>1. S = {}
    BY <1>2
  <2>2. QED
    BY <1>2, <2>1, FS_EmptySet DEF Launches
<1>3. CASE ran[f] # <<>>
  <2>1. Len(ran[f]) # 0
    BY <1>1, <1>3
  <2>2. 1 \in S
    BY <1>1, <1>3, <2>1 DEF History
  <2>3. 2 \notin S
    BY <1>1, <1>3, <2>1 DEF History, ParentRun, Run
  <2>4. S = {1}
    BY <1>1, <2>2, <2>3
  <2>5. QED
    BY <1>3, <2>4, FS_Singleton DEF Launches
<1>4. QED
  BY <1>2, <1>3

\* What f sees of a step of the call of its entry, or of its handler.
LEMMA EntryStepMaps ==
  ASSUME FullInv, FullInv', NEW f \in Fs, EntryStep(f),
         Launches(f) = IF ran[f] = <<>> THEN 0 ELSE 1,
         Launches(f)' = IF ran'[f] = <<>> THEN 0 ELSE 1
  PROVE  \/ Outcome(f)' = Outcome(f) /\ Launches(f)' = Launches(f)
         \/ Outcome(f) = "none" /\ Outcome(f)' = "open" /\ Launches(f)' = Launches(f)
         \/ /\ Outcome(f) = "open" /\ Outcome(f)' = "open"
            /\ Launches(f) = 0 /\ Launches(f)' = 1
         \/ /\ Outcome(f) = "open" /\ Outcome(f)' = "ok"
            /\ Launches(f) = 1 /\ Launches(f)' = 1
         \/ /\ Outcome(f) \in {"none", "open"} /\ Outcome(f)' = "error"
            /\ Launches(f)' = Launches(f)
<1>1. /\ IInv /\ EntryInv(f) /\ EntryInv(f)'
      /\ ran \in [Fs -> Seq(Runs)] /\ ran[f] \in Seq(Runs)
  BY DEF FullInv, IInv, TypeOK
<1>2. CASE Connect(f)
  <2>1. call[f].at = "idle" /\ call'[f].at \in {"connected", "local"} /\ ran' = ran
    BY <1>1, <1>2, GoesFacts DEF Connect, EntryUnchanged
  <2>2. QED
    BY <2>1 DEF Outcome, Pending
<1>3. CASE HandleEntry(f)
  <2>1. call[f].at = "connected" /\ call'[f].at \in {"entry", "error"} /\ ran' = ran
    BY <1>1, <1>3, GoesFacts, MadeTo DEF HandleEntry
  <2>2. QED
    BY <2>1 DEF Outcome, Pending
<1>4. CASE Refuse(f)
  <2>1. call[f].at = "entry" /\ call'[f].at = "failed" /\ ran' = ran
    BY <1>1, <1>4, GoesFacts DEF Refuse, At, EntryUnchanged
  <2>2. QED
    BY <2>1 DEF Outcome, Pending
<1>5. CASE Launch(f)
  <2>1. call[f].at = "entry" /\ call'[f].at \in {"answer", "running"}
    BY <1>1, <1>5, GoesFacts DEF Launch, At
  <2>2. ran[f] = <<>> /\ ran'[f] # <<>>
    BY <1>1, <2>1 DEF EntryInv
  <2>3. QED
    BY <2>1, <2>2 DEF Outcome, Pending
<1>6. CASE \E e \in Exits : ProgramEnds(f, e)
  <2>1. /\ call[f].at \in {"running", "parent"}
        /\ call'[f].at \in {"parent", "answer", "failed"}
        /\ ran' = ran \/ ran' = [ran EXCEPT ![f] = Append(ran[f], ParentRun)]
    BY <1>1, <1>6, GoesFacts DEF ProgramEnds, At
  <2>2. ran[f] # <<>>
    <3>1. Len(ran[f]) = 1 \/ Len(ran[f]) = 2
      BY <1>1, <2>1, Zenon DEF EntryInv
    <3>2. QED
      BY <1>1, <3>1, LenFacts, Zenon
  <2>3. ran'[f] # <<>>
    BY <1>1, <2>1, <2>2, AppendFacts DEF ParentRun, Run, Runs
  <2>4. QED
    BY <2>1, <2>2, <2>3 DEF Outcome, Pending
<1>7. CASE Answer(f)
  <2>1. /\ \/ call[f].at = "answer" /\ call'[f].at = "ok"
           \/ call[f].at = "failed" /\ call'[f].at = "error"
        /\ ran' = ran
    BY <1>1, <1>7, GoesFacts DEF Answer, At, EntryUnchanged
  <2>2. call[f].at = "answer" => ran[f] # <<>>
    BY <1>1 DEF EntryInv
  <2>3. QED
    BY <2>1, <2>2 DEF Outcome, Pending
<1>8. CASE Lost(f)
  <2>1. call[f].at \in Pending /\ call'[f].at = "error" /\ ran' = ran
    BY <1>1, <1>8, GoesFacts DEF Lost, EntryUnchanged
  <2>2. QED
    BY <2>1 DEF Outcome, Pending
<1>9. QED
  BY <1>2, <1>3, <1>4, <1>5, <1>6, <1>7, <1>8 DEF EntryStep

(***************************************************************************)
(* What f sees of the service is what RemoteService promises, over HTTP    *)
(* and over RPC (HandleEntry, LaunchEntry): its entry is launched at most  *)
(* once, before the call returns, and was launched if it returns nil.      *)
(***************************************************************************)
THEOREM RemoteRefinement == Spec => RemoteSpec
<1>1. Init => Service!Init
  <2> SUFFICES ASSUME Init
               PROVE  Service!Init
    OBVIOUS
  <2>1. ASSUME NEW f \in Fs
        PROVE  Outcome(f) = "none"
    BY DEF Init, NoCall, Outcome, Pending
  <2>2. ASSUME NEW f \in Fs
        PROVE  Launches(f) = 0
    <3>1. {i \in DOMAIN ran[f] : ran[f][i] = Wanted(message[f])} = {}
      BY DEF Init
    <3>2. QED
      BY <3>1, FS_EmptySet DEF Launches
  <2>3. QED
    BY <2>1, <2>2 DEF Service!Init
<1>2. (FullInv => \A f \in Fs : Launches(f) = IF ran[f] = <<>> THEN 0 ELSE 1)'
  BY LaunchesFacts, PTL
<1>3. FullInv /\ FullInv' /\ [Next]_vars => [Service!Next]_Service!vars
  <2> SUFFICES ASSUME FullInv, FullInv', [Next]_vars
               PROVE  [Service!Next]_Service!vars
    OBVIOUS
  <2>1. ASSUME NEW g \in Fs, Keeps(g)
        PROVE  Outcome(g)' = Outcome(g) /\ Launches(g)' = Launches(g)
    BY <2>1 DEF Keeps, Outcome, Launches
  <2>2. CASE \A g \in Fs : Keeps(g)
    BY <2>1, <2>2 DEF Service!vars
  <2>3. ASSUME NEW f \in Fs, EntryStep(f), \A g \in Fs \ {f} : Keeps(g)
        PROVE  [Service!Next]_Service!vars
    <3>1. \A g \in Fs \ {f} : Outcome(g)' = Outcome(g) /\ Launches(g)' = Launches(g)
      BY <2>1, <2>3
    <3>2. /\ Launches(f) = IF ran[f] = <<>> THEN 0 ELSE 1
          /\ Launches(f)' = IF ran'[f] = <<>> THEN 0 ELSE 1
      BY <1>2, LaunchesFacts
    <3>3. CASE Outcome(f)' = Outcome(f) /\ Launches(f)' = Launches(f)
      BY <3>1, <3>3 DEF Service!vars
    <3>4. CASE /\ Outcome(f) = "none" /\ Outcome(f)' = "open"
               /\ Launches(f)' = Launches(f)
      <4>1. Service!HandleEntry(f)
        BY <3>1, <3>4 DEF Service!HandleEntry
      <4>2. QED
        BY <4>1 DEF Service!Next
    <3>5. CASE /\ Outcome(f) = "open" /\ Outcome(f)' = "open"
               /\ Launches(f) = 0 /\ Launches(f)' = 1
      <4>1. Service!Launch(f)
        BY <3>1, <3>5 DEF Service!Launch
      <4>2. QED
        BY <4>1 DEF Service!Next
    <3>6. CASE /\ Outcome(f) = "open" /\ Outcome(f)' = "ok"
               /\ Launches(f) = 1 /\ Launches(f)' = 1
      <4>1. Service!Succeed(f)
        BY <3>1, <3>6 DEF Service!Succeed
      <4>2. QED
        BY <4>1 DEF Service!Next
    <3>7. CASE /\ Outcome(f) \in {"none", "open"} /\ Outcome(f)' = "error"
               /\ Launches(f)' = Launches(f)
      <4>1. Service!Fail(f)
        BY <3>1, <3>7 DEF Service!Fail
      <4>2. QED
        BY <4>1 DEF Service!Next
    <3>8. QED
      BY <2>3, <3>2, <3>3, <3>4, <3>5, <3>6, <3>7, EntryStepMaps
  <2>4. IInv
    BY DEF FullInv
  <2>5. QED
    BY <2>2, <2>3, <2>4, Steps
<1>4. QED
  BY <1>1, <1>3, FullInvariance, PTL DEF Spec, RemoteSpec, Service!Spec
=============================================================================
