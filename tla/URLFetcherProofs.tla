--------------------------- MODULE URLFetcherProofs ---------------------------
(***************************************************************************)
(* What getInContent() returns is complete, for any number of clients and  *)
(* calls.                                                                  *)
(***************************************************************************)
EXTENDS URLFetcher, TLAPS

\* A transfer that is over, and one whose end has been told, has all the content.
EndedComplete ==
    \A c \in Clients :
        /\ transfer[c] = "ok" => content[c] # "partial"
        /\ isDownloaded[c] => content[c] # "partial" /\ transfer[c] = "none"

\* With the mutex of the URL held, nobody but the client changes what it has tested.
ClientKnows ==
    \A c \in Clients :
        /\ stage[c] = "fetching" => ~isDownloaded[c]
        /\ stage[c] = "reading" => isDownloaded[c]

\* Only the end of a transfer that is over is told.
TellsEnded == fetcher = "telling" => current \in Ended

FetchInv == TypeOK /\ EndedComplete /\ ClientKnows /\ TellsEnded

\* The calls of download(), fetchURL() and getInContent() keep the invariant.
LEMMA ClientSteps ==
    ASSUME FetchInv, NEW c \in Clients,
           \/ \E r \in BOOLEAN : GetInContent(c, r)
           \/ \E b \in BOOLEAN : CallDownload(c, b)
           \/ CallFetchURL(c) \/ Download(c) \/ Fetch(c) \/ Check(c) \/ WakeSpuriously(c) \/ ReadContent(c)
    PROVE FetchInv'
<1> USE MaxCallsAssumption DEF FetchInv, TypeOK, EndedComplete, ClientKnows, TellsEnded, Ended
<1>1. CASE \E r \in BOOLEAN : GetInContent(c, r)
  BY <1>1 DEF GetInContent, Begin, Goto, loop
<1>2. CASE \E b \in BOOLEAN : CallDownload(c, b)
  BY <1>2 DEF CallDownload, Begin, Goto, urls, loop
<1>3. CASE CallFetchURL(c)
  BY <1>3 DEF CallFetchURL, NewURL, FetchURL, FetcherMutexFree, InFlight, Notified
<1>4. CASE Download(c)
  BY <1>4 DEF Download, EndDownload, GoOn, Return, Goto, urls, loop
<1>5. CASE Fetch(c)
  BY <1>5 DEF Fetch, FetchURL, FetcherMutexFree, InFlight, Notified, GoOn, Return, Goto
<1>6. CASE Check(c)
  BY <1>6 DEF Check, EndDownload, GoOn, Return, Goto, urls, loop
<1>7. CASE WakeSpuriously(c)
  BY <1>7 DEF WakeSpuriously, GoOn, Goto, urls, loop
<1>8. CASE ReadContent(c)
  BY <1>8 DEF ReadContent, Return, Goto, urls, loop
<1>9. QED
  BY <1>1, <1>2, <1>3, <1>4, <1>5, <1>6, <1>7, <1>8

\* So do the fetcher's thread, curl and stop().
LEMMA FetcherSteps ==
    ASSUME FetchInv,
           \/ \E c \in Clients : EndTransfer(c)
           \/ Run \/ Enter \/ WakeFetcherSpuriously \/ Perform \/ ReadInfo \/ Tell \/ Loop
           \/ StopMark \/ StopNotify \/ StopJoin
    PROVE FetchInv'
<1> USE MaxCallsAssumption DEF FetchInv, TypeOK, EndedComplete, ClientKnows, TellsEnded, Ended
<1>1. CASE \E c \in Clients : EndTransfer(c)
  BY <1>1 DEF EndTransfer, client, loop
<1>2. CASE Run \/ Enter \/ WakeFetcherSpuriously \/ Perform \/ Loop
  <2>1. CASE Run \/ Enter \/ WakeFetcherSpuriously
    BY <2>1 DEF Run, Enter, WakeFetcherSpuriously, client, urls
  <2>2. CASE Perform
    BY <2>2 DEF Perform, client, urls
  <2>3. CASE Loop
    BY <2>3 DEF Loop, client, urls
  <2>4. QED
    BY <1>2, <2>1, <2>2, <2>3
<1>3. CASE ReadInfo
  BY <1>3 DEF ReadInfo, client, urls
<1>4. CASE Tell
  BY <1>4 DEF Tell, CanTell, HoldsURL, Goto
<1>5. CASE StopMark \/ StopNotify \/ StopJoin
  <2>1. CASE StopMark
    BY <2>1 DEF StopMark, client, urls, loop
  <2>2. CASE StopNotify
    BY <2>2 DEF StopNotify, Notified, client, urls
  <2>3. CASE StopJoin
    BY <2>3 DEF StopJoin, client, urls, loop
  <2>4. QED
    BY <1>5, <2>1, <2>2, <2>3
<1>6. QED
  BY <1>1, <1>2, <1>3, <1>4, <1>5

(***************************************************************************)
(* getInContent never returns what has arrived so far of a transfer that   *)
(* runs or has broken off, whatever the clients start, retry and reload    *)
(* (URLImpl::download with downloadStarted and downloadCompleted).         *)
(***************************************************************************)
THEOREM ContentAlwaysComplete == Spec => []ContentComplete
<1>1. Init => FetchInv
  <2> SUFFICES ASSUME Init PROVE FetchInv
    OBVIOUS
  <2>1. TypeOK
    <3>1. /\ isDownloaded \in [Clients -> BOOLEAN] /\ hasFailed \in [Clients -> BOOLEAN]
          /\ stillRunning \in BOOLEAN /\ isStarted \in BOOLEAN
      BY Zenon DEF Init
    <3>2. calls \in 0 .. MaxCalls
      BY MaxCallsAssumption DEF Init
    <3>3. QED
      BY <3>1, <3>2 DEF Init, TypeOK
  <2>2. EndedComplete /\ ClientKnows
    BY DEF Init, EndedComplete, ClientKnows
  <2>3. TellsEnded
    BY DEF Init, TellsEnded
  <2>4. QED
    BY <2>1, <2>2, <2>3 DEF FetchInv
<1>2. FetchInv /\ [Next]_vars => FetchInv'
  <2> SUFFICES ASSUME FetchInv, [Next]_vars PROVE FetchInv'
    OBVIOUS
  <2>1. CASE Next
    BY <2>1, ClientSteps, FetcherSteps DEF Next
  <2>2. CASE UNCHANGED vars
    BY <2>2 DEF vars, client, urls, loop, FetchInv, TypeOK, EndedComplete, ClientKnows, TellsEnded, Ended
  <2>3. QED
    BY <2>1, <2>2
<1>3. FetchInv => ContentComplete
  BY DEF FetchInv, TypeOK, EndedComplete, ClientKnows, ContentComplete
<1>4. QED
  BY <1>1, <1>2, <1>3, PTL DEF Spec
=============================================================================
