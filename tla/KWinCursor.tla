------------------------------ MODULE KWinCursor ------------------------------
(***************************************************************************)
(* The cursor source for KWin (KWinCursorSource in                         *)
(* src/src/overlay/CursorSource.cpp).  A query writes a script file named  *)
(* after its id, has KWin load it and run it, and the script calls back    *)
(* with the pointer.  Queries supersede each other and time out while      *)
(* their load is under way; the process may die and start again, while     *)
(* KWin and the script directory stay.                                     *)
(*                                                                         *)
(* The messages of each side are delivered in order.                       *)
(***************************************************************************)
EXTENDS Integers, Sequences

CONSTANTS
  MaxRequestId,   \* the ids wrap behind it
  MaxQueries,     \* bound: queries in a run
  MaxLives        \* bound: processes one after the other

ASSUME KWinAssumption ==
  /\ MaxRequestId \in Nat \ {0}
  /\ MaxQueries \in Nat /\ MaxLives \in Nat

VARIABLES
  constructed,  \* is the source there?  It is built with the first query
  requestCounter, activeRequestId, pending,   \* pending: the query with the callback
  currentScriptFile, currentScriptPath,
  lives,        \* processes so far
  files,        \* script files on disk
  scripts,      \* KWin's scripts: path object, file and process
  toKWin, toSource,
  answers       \* history: the answer of each query

kwinVars == <<constructed, requestCounter, activeRequestId, pending, currentScriptFile,
              currentScriptPath, lives, files, scripts, toKWin, toSource, answers>>
scriptVars == <<requestCounter, activeRequestId, pending, currentScriptFile,
           currentScriptPath, answers>>

kNoRequest == 0
kFirstRequestId == 1
NoFile == 0       \* a file is known by the id in its name
NoPath == 0

KWinInit ==
  /\ constructed = FALSE
  /\ requestCounter = kFirstRequestId
  /\ activeRequestId = kNoRequest /\ pending = 0
  /\ currentScriptFile = NoFile /\ currentScriptPath = NoPath
  /\ lives = 1
  /\ files \in {{}, {kFirstRequestId}}
  /\ scripts = {}
  /\ toKWin = <<>> /\ toSource = <<>>
  /\ answers = <<>>

\* --- The source ---

\* Mutant: the counter does not wrap.
NextRequestIdMutant(counter) == counter + 1

NextRequestId(counter) == IF counter = MaxRequestId THEN kFirstRequestId ELSE counter + 1

ToKWin(method, arg) == [method |-> method, arg |-> arg, sender |-> lives]
Stop(path) == IF path = NoPath THEN <<>> ELSE <<ToKWin("stop", path)>>

Sweep == {}

\* The source is built: what dead processes left in the directory is swept.
Construct ==
  /\ ~constructed /\ Len(answers) < MaxQueries
  /\ constructed' = TRUE
  /\ files' = Sweep
  /\ UNCHANGED <<scriptVars, lives, scripts, toKWin, toSource>>

\* Mutant: a query that ends without a pointer calls nobody back.
ResolvedMutant(answer) == answers

\* resolve: the query's script is stopped if it was loaded, its file removed, and
\* the callback called, if there is one.
Resolved(answer) ==
  IF pending = 0 THEN answers ELSE [answers EXCEPT ![pending] = answer]
NoActiveQuery ==
  /\ activeRequestId' = kNoRequest /\ pending' = 0
  /\ currentScriptFile' = NoFile /\ currentScriptPath' = NoPath
Resolve(answer) ==
  /\ NoActiveQuery
  /\ answers' = Resolved(answer)
  /\ toKWin' = toKWin \o Stop(currentScriptPath)
  /\ files' = files \ {currentScriptFile}

\* getCursor: a query in flight is resolved with nothing.  A script that cannot be
\* written answers at once.
GetCursor(written) ==
  /\ constructed /\ Len(answers) < MaxQueries
  /\ requestCounter' = NextRequestId(requestCounter)
  /\ IF written
     THEN /\ activeRequestId' = requestCounter /\ pending' = Len(answers) + 1
          /\ currentScriptFile' = requestCounter /\ currentScriptPath' = NoPath
          /\ answers' = Append(Resolved("nothing"), "waiting")
          /\ files' = (files \ {currentScriptFile}) \cup {requestCounter}
          /\ toKWin' = toKWin \o Stop(currentScriptPath)
                              \o <<ToKWin("loadScript", requestCounter)>>
     ELSE /\ NoActiveQuery
          /\ answers' = Append(Resolved("nothing"), "nothing")
          /\ files' = files \ {currentScriptFile, requestCounter}
          /\ toKWin' = toKWin \o Stop(currentScriptPath)
  /\ UNCHANGED <<constructed, lives, scripts, toSource>>

\* Mutant: a script loaded too late stays in KWin.
LateLoadMutant(id, path) ==
  files' = files \ {id} /\ UNCHANGED <<scriptVars, toKWin>>

\* The load came back after its query was over: the script is unloaded again.
LateLoad(id, path) ==
  /\ files' = files \ {id}
  /\ toKWin' = toKWin \o Stop(path)
  /\ UNCHANGED scriptVars

Message == Head(toSource)
Receives(kind) ==
  /\ toSource # <<>> /\ Message.kind = kind
  /\ toSource' = Tail(toSource)
  /\ UNCHANGED <<constructed, lives, scripts>>

\* The reply to loadScript: an error or a negative id gives no path.
OnLoadReply ==
  /\ Receives("loaded")
  /\ IF Message.id # activeRequestId THEN LateLoad(Message.id, Message.path)
     ELSE IF Message.path = NoPath
     THEN Resolve("nothing") /\ UNCHANGED requestCounter
     ELSE /\ currentScriptPath' = Message.path
          /\ toKWin' = Append(toKWin, ToKWin("run", Message.path))
          /\ UNCHANGED <<requestCounter, activeRequestId, pending, currentScriptFile,
                         answers, files>>

IsReplyForActiveQuery(id) == activeRequestId # kNoRequest /\ id = activeRequestId

\* reportCursor.
ReportCursor ==
  /\ Receives("report")
  /\ IF IsReplyForActiveQuery(Message.id)
     THEN Resolve("pointer") /\ UNCHANGED requestCounter
     ELSE UNCHANGED <<scriptVars, files, toKWin>>

\* The timer runs while a query is in flight.
Timeout ==
  /\ pending # 0
  /\ Resolve("nothing")
  /\ UNCHANGED <<constructed, requestCounter, lives, scripts, toSource>>

\* The process dies and is started again: what waited is never answered, replies to
\* it are lost, files and scripts stay.
Die ==
  /\ constructed /\ lives < MaxLives
  /\ lives' = lives + 1
  /\ constructed' = FALSE
  /\ NoActiveQuery
  /\ requestCounter' = kFirstRequestId
  /\ answers' = Resolved("dropped")
  /\ toSource' = <<>>
  /\ UNCHANGED <<files, scripts, toKWin>>

\* --- KWin ---

Request == Head(toKWin)
Serves(method) == toKWin # <<>> /\ Request.method = method /\ toKWin' = Tail(toKWin)
Paths == {s.path : s \in scripts}
\* The lowest path that no script has.
FreePaths == {n \in 1 .. Len(answers) + 1 : n \notin Paths /\ 1 .. n - 1 \subseteq Paths}

\* A script loaded from the same path, a missing file or a fault declines the load;
\* a file that goes while it is read may still be loaded.
KWinLoads(path) ==
  /\ Serves("loadScript")
  /\ path # NoPath => path \notin Paths /\ \A s \in scripts : s.file # Request.arg
  /\ scripts' = IF path = NoPath THEN scripts
                ELSE scripts \cup {[path |-> path, file |-> Request.arg,
                                    sender |-> Request.sender]}
  /\ toSource' = IF Request.sender # lives THEN toSource
                 ELSE Append(toSource, [kind |-> "loaded", id |-> Request.arg,
                                        path |-> path])
  /\ UNCHANGED <<constructed, scriptVars, lives, files>>

\* A running script reports, unless it fails in silence.
KWinRuns(reports) ==
  /\ Serves("run")
  /\ reports => constructed /\ \E s \in scripts : s.path = Request.arg
  /\ toSource' =
       IF reports
       THEN LET s == CHOOSE s \in scripts : s.path = Request.arg
            IN  Append(toSource, [kind |-> "report", id |-> s.file, path |-> NoPath])
       ELSE toSource
  /\ UNCHANGED <<constructed, scriptVars, lives, files, scripts>>

KWinStops ==
  /\ Serves("stop")
  /\ scripts' = {s \in scripts : s.path # Request.arg}
  /\ UNCHANGED <<constructed, scriptVars, lives, files, toSource>>

KWinNext ==
  \/ Construct
  \/ \E written \in BOOLEAN : GetCursor(written)
  \/ OnLoadReply
  \/ ReportCursor
  \/ Timeout
  \/ Die
  \/ \E path \in {NoPath} \cup FreePaths : KWinLoads(path)
  \/ \E reports \in BOOLEAN : KWinRuns(reports)
  \/ KWinStops

KWinSpec == KWinInit /\ [][KWinNext]_kwinVars

\* --- Properties ---

\* The variables keep their types.
KWinTypeOK ==
  /\ constructed \in BOOLEAN
  /\ requestCounter \in 1 .. MaxRequestId
  /\ activeRequestId \in 0 .. MaxRequestId /\ currentScriptFile \in 0 .. MaxRequestId
  /\ pending \in 0 .. Len(answers) /\ currentScriptPath \in Nat
  /\ files \subseteq 1 .. MaxRequestId
  /\ answers \in Seq({"waiting", "pointer", "nothing", "dropped"})

\* The directory holds the file of the query in flight and no other.
FilesAreSwept ==
  constructed => /\ files = {currentScriptFile} \ {NoFile}
                 /\ (pending = 0) = (currentScriptFile = NoFile)

\* Once everything under way has arrived, an idle source has left no script in KWin.
ScriptsAreStopped ==
  constructed /\ pending = 0 /\ toKWin = <<>> /\ toSource = <<>>
    => \A s \in scripts : s.sender # lives

\* Both hold whatever was superseded, timed out or came late (CursorSource.cpp
\* 133-304).
NothingIsLeaked == FilesAreSwept /\ ScriptsAreStopped

\* Every query is answered exactly once, or was dropped with its process.
Cursor == INSTANCE CursorSource
AnsweredOnce == Cursor!Spec
=============================================================================
