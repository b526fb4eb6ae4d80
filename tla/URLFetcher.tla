------------------------------ MODULE URLFetcher ------------------------------
(***************************************************************************)
(* URLFetcher and the threads that download with it.  One thread of its    *)
(* own drives all transfers of the program through curl's multi interface; *)
(* URLImpl::download adds a transfer and may wait for its end.  Each URL   *)
(* belongs to the thread that has created it, as in the interpreter, so a  *)
(* client stands for its URL as well.                                      *)
(*                                                                         *)
(* There are two mutexes: _mutex of the fetcher, here fetcherMutex, and    *)
(* _mutex of each URL.  download() takes the one of the URL first, the     *)
(* fetcher's thread its own first.  A critical section that waits for no   *)
(* other mutex is one action.                                              *)
(***************************************************************************)
EXTENDS Naturals, FiniteSets

CONSTANTS
    Clients,   \* the threads that download, each with its URL
    MaxCalls   \* bound: the calls of all of them

ASSUME MaxCallsAssumption == MaxCalls \in Nat

VARIABLES
    stage,         \* where each client is in download() or getInContent()
    call,          \* the call it is in: getInContent(), download(true) or download(false)
    calls,         \* the number of calls so far
    isDownloaded,  \* URLImpl::_isDownloaded
    hasFailed,     \* URLImpl::_hasFailed
    content,       \* URLImpl::_rawInContent
    transfer,      \* what curl knows of the URL's handle
    fetcher,       \* where the fetcher's thread is
    current,       \* the URL whose end it is about to tell
    stillRunning,  \* perform()'s variable of that name
    isStarted,     \* URLFetcher::_isStarted
    stopper        \* where the thread that calls cleanup() is

urls == <<isDownloaded, hasFailed, content, transfer>>
client == <<stage, call, calls>>
loop == <<fetcher, current, stillRunning>>
vars == <<client, urls, loop, isStarted, stopper>>

Nobody == "nobody"

Init ==
    /\ stage = [c \in Clients |-> "outside"]
    /\ call = [c \in Clients |-> "none"]
    /\ calls = 0
    /\ isDownloaded = [c \in Clients |-> FALSE]
    /\ hasFailed = [c \in Clients |-> FALSE]
    /\ content = [c \in Clients |-> "partial"]
    /\ transfer = [c \in Clients |-> "none"]
    /\ fetcher = "testing" /\ current = Nobody /\ stillRunning = FALSE
    /\ isStarted = TRUE
    /\ stopper = "before"

\* The stages in which a client holds the mutex of its URL.
HoldsURL(c) == stage[c] \in {"fetching", "checking"}
\* _handlesToURLs, from fetchURL until the end of the transfer has been told.
InFlight == {c \in Clients : transfer[c] # "none"}
FetcherMutexFree == fetcher # "telling"
\* _condVar.notify_all of the fetcher.
Notified == IF fetcher = "waiting" THEN "performing" ELSE fetcher

Goto(c, s) == stage' = [stage EXCEPT ![c] = s]

-----------------------------------------------------------------------------
(* The clients. *)

Begin(c, what, next) ==
    /\ stage[c] = "outside" /\ calls < MaxCalls
    /\ calls' = calls + 1
    /\ call' = [call EXCEPT ![c] = what]
    /\ Goto(c, next)

Return(c) ==
    /\ Goto(c, "outside")
    /\ call' = [call EXCEPT ![c] = "none"]
    /\ UNCHANGED calls

GoOn(c, s) == Goto(c, s) /\ UNCHANGED <<call, calls>>

\* The end of download(), which getInContent() has called or somebody else.
EndDownload(c) == IF call[c] = "getInContent" THEN GoOn(c, "reading") ELSE Return(c)

\* URLImpl::getInContent, which asks for a blocking download if there has been none.
GetInContent(c, forceReload) ==
    /\ isDownloaded' = [isDownloaded EXCEPT ![c] = @ /\ ~forceReload]
    /\ Begin(c, "getInContent", IF isDownloaded'[c] THEN "reading" ELSE "locking")
    /\ UNCHANGED <<hasFailed, content, transfer, loop, isStarted, stopper>>

\* URLImpl::download called from elsewhere.
CallDownload(c, blocking) ==
    /\ Begin(c, IF blocking THEN "blocking" ELSE "starting", "locking")
    /\ UNCHANGED <<urls, loop, isStarted, stopper>>

Download(c) ==
    /\ stage[c] = "locking"
    /\ IF isDownloaded[c] THEN EndDownload(c) ELSE GoOn(c, "fetching")
    /\ UNCHANGED <<urls, loop, isStarted, stopper>>

\* Mutant: the fetcher's thread is not notified.
FetchURLSilently(c) ==
    /\ FetcherMutexFree
    /\ IF c \in InFlight THEN UNCHANGED <<content, transfer>>
       ELSE /\ content' = [content EXCEPT ![c] = "partial"]
            /\ transfer' = [transfer EXCEPT ![c] = "running"]
    /\ UNCHANGED <<isDownloaded, hasFailed, loop>>

(***************************************************************************)
(* URLFetcher::fetchURL, with downloadStarted, which empties _rawInContent *)
(* and leaves the two flags alone.  Nothing happens if the URL is being    *)
(* fetched already.                                                        *)
(***************************************************************************)
FetchURL(c) ==
    /\ FetcherMutexFree
    /\ IF c \in InFlight THEN UNCHANGED <<content, transfer, fetcher>>
       ELSE /\ content' = [content EXCEPT ![c] = "partial"]
            /\ transfer' = [transfer EXCEPT ![c] = "running"]
            /\ fetcher' = Notified
    /\ UNCHANGED <<isDownloaded, hasFailed, current, stillRunning>>

Fetch(c) ==
    /\ stage[c] = "fetching"
    /\ FetchURL(c)
    /\ IF call[c] = "starting" THEN Return(c) ELSE GoOn(c, "checking")
    /\ UNCHANGED <<isStarted, stopper>>

\* Nothing has ever been fetched from the URL.
NewURL(c) ==
    /\ content[c] = "partial" /\ ~isDownloaded[c] /\ ~hasFailed[c]
    /\ c \notin InFlight

\* fetchURL called by BasicHTTPIOProcessor for a new URL, whose mutex it does not hold.
CallFetchURL(c) ==
    /\ NewURL(c)
    /\ stage[c] = "outside" /\ calls < MaxCalls
    /\ calls' = calls + 1
    /\ FetchURL(c)
    /\ UNCHANGED <<stage, call, isStarted, stopper>>

\* Mutant: a client that was woken does not look again.
CheckOnce(c) ==
    /\ stage[c] \in {"checking", "woken"}
    /\ IF stage[c] = "checking" /\ ~isDownloaded[c] /\ ~hasFailed[c] THEN GoOn(c, "waiting")
       ELSE IF hasFailed[c] \/ content[c] = "errorPage" THEN Return(c) ELSE EndDownload(c)
    /\ UNCHANGED <<urls, loop, isStarted, stopper>>

(***************************************************************************)
(* The loop around _condVar.wait, which gives up the mutex of the URL, and *)
(* what follows it: an exception if the download has failed, or if the     *)
(* status of the answer is above 400, which leaves _isDownloaded set.      *)
(***************************************************************************)
Check(c) ==
    /\ stage[c] \in {"checking", "woken"}
    /\ IF ~isDownloaded[c] /\ ~hasFailed[c] THEN GoOn(c, "waiting")
       ELSE IF hasFailed[c] \/ content[c] = "errorPage" THEN Return(c) ELSE EndDownload(c)
    /\ UNCHANGED <<urls, loop, isStarted, stopper>>

WakeSpuriously(c) ==
    /\ stage[c] = "waiting"
    /\ GoOn(c, "woken")
    /\ UNCHANGED <<urls, loop, isStarted, stopper>>

\* getInContent returns _rawInContent.
ReadContent(c) ==
    /\ stage[c] = "reading"
    /\ Return(c)
    /\ UNCHANGED <<urls, loop, isStarted, stopper>>

-----------------------------------------------------------------------------
(* curl: a transfer ends.  What writeHandler adds before is "partial" as well; the *)
(* content of an answer with a status above 400 is an "errorPage".                 *)

EndTransfer(c) ==
    /\ transfer[c] = "running"
    /\ transfer' \in {[transfer EXCEPT ![c] = r] : r \in {"ok", "failed"}}
    /\ \E all \in {"complete", "errorPage"} :
          content' = [content EXCEPT ![c] = IF transfer'[c] = "ok" THEN all ELSE @]
    /\ UNCHANGED <<client, isDownloaded, hasFailed, loop, isStarted, stopper>>

-----------------------------------------------------------------------------
(* The fetcher's thread. *)

\* The loop of run().
Run ==
    /\ fetcher = "testing"
    /\ fetcher' = IF isStarted THEN "entering" ELSE "ended"
    /\ UNCHANGED <<client, urls, current, stillRunning, isStarted, stopper>>

\* The beginning of perform(): one wait, without a loop around it.
Enter ==
    /\ fetcher = "entering"
    /\ fetcher' = IF InFlight = {} THEN "waiting" ELSE "performing"
    /\ UNCHANGED <<client, urls, current, stillRunning, isStarted, stopper>>

WakeFetcherSpuriously ==
    /\ fetcher = "waiting"
    /\ fetcher' = "performing"
    /\ UNCHANGED <<client, urls, current, stillRunning, isStarted, stopper>>

\* curl_multi_perform, with the look at timeouts and file descriptors before it.
Perform ==
    /\ fetcher = "performing"
    /\ stillRunning' = (\E c \in Clients : transfer[c] = "running")
    /\ fetcher' = "reading"
    /\ UNCHANGED <<client, urls, current, isStarted, stopper>>

\* curl_multi_info_read: one message after the other, with fetcherMutex held.
Ended == {c \in Clients : transfer[c] \in {"ok", "failed"}}

ReadInfo ==
    /\ fetcher = "reading"
    /\ IF Ended = {} THEN fetcher' = "looping" /\ current' = Nobody
       ELSE current' \in Ended /\ fetcher' = "telling"
    /\ UNCHANGED <<client, urls, stillRunning, isStarted, stopper>>

\* Whether the mutex of the URL can be taken; a client holds it from locking to waiting.
CanTell(c) == ~HoldsURL(c)

(***************************************************************************)
(* downloadCompleted or downloadFailed, which take the mutex of the URL    *)
(* with fetcherMutex held, and the removal of the handle.                  *)
(***************************************************************************)
Tell ==
    /\ fetcher = "telling"
    /\ CanTell(current)
    /\ isDownloaded' = [isDownloaded EXCEPT ![current] = (transfer[current] = "ok")]
    /\ hasFailed' = [hasFailed EXCEPT ![current] = (transfer[current] = "failed")]
    /\ Goto(current, IF stage[current] = "waiting" THEN "woken" ELSE stage[current])
    /\ transfer' = [transfer EXCEPT ![current] = "none"]
    /\ LET left == Ended \ {current} IN
          IF left = {} THEN fetcher' = "looping" /\ current' = Nobody
          ELSE fetcher' = "telling" /\ current' \in left
    /\ UNCHANGED <<call, calls, content, stillRunning, isStarted, stopper>>

\* The condition at the end of perform().
Loop ==
    /\ fetcher = "looping"
    /\ fetcher' = IF stillRunning /\ isStarted THEN "performing" ELSE "testing"
    /\ UNCHANGED <<client, urls, current, stillRunning, isStarted, stopper>>

-----------------------------------------------------------------------------
(* URLFetcher::stop, called when the program ends. *)

StopMark ==
    /\ stopper = "before" /\ FetcherMutexFree
    /\ isStarted' = FALSE
    /\ stopper' = "marked"
    /\ UNCHANGED <<client, urls, loop>>

StopNotify ==
    /\ stopper = "marked"
    /\ fetcher' = Notified
    /\ stopper' = "joining"
    /\ UNCHANGED <<client, urls, current, stillRunning, isStarted>>

StopJoin ==
    /\ stopper = "joining" /\ fetcher = "ended"
    /\ stopper' = "after"
    /\ UNCHANGED <<client, urls, loop, isStarted>>

-----------------------------------------------------------------------------

Next ==
    \/ \E c \in Clients, r \in BOOLEAN : GetInContent(c, r)
    \/ \E c \in Clients, b \in BOOLEAN : CallDownload(c, b)
    \/ \E c \in Clients : CallFetchURL(c)
    \/ \E c \in Clients : Download(c)
    \/ \E c \in Clients : Fetch(c)
    \/ \E c \in Clients : Check(c)
    \/ \E c \in Clients : WakeSpuriously(c)
    \/ \E c \in Clients : ReadContent(c)
    \/ \E c \in Clients : EndTransfer(c)
    \/ Run \/ Enter \/ WakeFetcherSpuriously \/ Perform \/ ReadInfo \/ Tell \/ Loop
    \/ StopMark \/ StopNotify \/ StopJoin

Spec == Init /\ [][Next]_vars

(***************************************************************************)
(* Threads run, a mutex that is free again and again is got, and a server  *)
(* answers or its connection breaks.  Nothing has to call.                 *)
(***************************************************************************)
Fairness ==
    /\ \A c \in Clients :
          /\ WF_vars(Download(c)) /\ SF_vars(Fetch(c)) /\ WF_vars(Check(c)) /\ WF_vars(ReadContent(c))
          /\ WF_vars(EndTransfer(c))
    /\ WF_vars(Run \/ Enter \/ Perform \/ ReadInfo \/ Loop)
    /\ WF_vars(Tell)
    /\ WF_vars(StopNotify) /\ WF_vars(StopJoin)

FairSpec == Spec /\ Fairness

-----------------------------------------------------------------------------

TypeOK ==
    /\ stage \in [Clients -> {"outside", "locking", "fetching", "checking", "waiting", "woken", "reading"}]
    /\ call \in [Clients -> {"none", "getInContent", "blocking", "starting"}]
    /\ calls \in 0 .. MaxCalls
    /\ isDownloaded \in [Clients -> BOOLEAN] /\ hasFailed \in [Clients -> BOOLEAN]
    /\ content \in [Clients -> {"partial", "complete", "errorPage"}]
    /\ transfer \in [Clients -> {"none", "running", "ok", "failed"}]
    /\ fetcher \in {"testing", "entering", "waiting", "performing", "reading", "telling", "looping", "ended"}
    /\ current \in Clients \cup {Nobody}
    /\ stillRunning \in BOOLEAN /\ isStarted \in BOOLEAN
    /\ stopper \in {"before", "marked", "joining", "after"}

(***************************************************************************)
(* getInContent returns all of the content, never what has arrived so far  *)
(* of a transfer that is running or has broken off, whatever was started,  *)
(* failed, retried or reloaded before (the loop in URLImpl::download, and  *)
(* downloadStarted, which empties _rawInContent).  It may be an error page *)
(* whose status an earlier call has thrown an exception for.               *)
(***************************************************************************)
ContentComplete ==
    \A c \in Clients : stage[c] = "reading" => content[c] \in {"complete", "errorPage"}

\* The fetcher waits for the mutex of a URL whose client waits for the fetcher's.
Deadlocked == fetcher = "telling" /\ stage[current] = "fetching"

\* The fetcher has begun to wait after it was notified of the end.
MissedTheEnd == fetcher = "waiting" /\ ~isStarted

(***************************************************************************)
(* Every call of download() and getInContent() returns while the fetcher   *)
(* runs, and stop() returns.  There are two ways only in which that fails: *)
(* a client that asks for a URL a second time while the end of the first   *)
(* transfer is being told takes the two mutexes in the opposite order, and *)
(* a fetcher that stop() finds between the test of _isStarted in run() and *)
(* the wait in perform() misses the notification.  One that waits already  *)
(* is woken by it.                                                         *)
(***************************************************************************)
CallsReturn ==
    /\ \A c \in Clients : stage[c] # "outside" ~> (stage[c] = "outside" \/ Deadlocked \/ ~isStarted)
    /\ fetcher = "waiting" /\ stopper = "marked" ~> fetcher # "waiting"
    /\ stopper = "joining" ~> (stopper = "after" \/ Deadlocked \/ MissedTheEnd)
=============================================================================
