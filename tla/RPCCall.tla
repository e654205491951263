------------------------------ MODULE RPCCall -------------------------------
(***************************************************************************)
(* rpc.go: one call of RPCCall.  The caller hands the addresses over an    *)
(* unbuffered channel to n goroutines; each posts the request, and the     *)
(* first that decodes an answer under respLock decides the call and        *)
(* cancels ctx.  All of them decode into the caller's one result.          *)
(*                                                                         *)
(* Left out: RPCTimeout = 0, with which a request may never end.           *)
(***************************************************************************)
EXTENDS Integers, RPCPromise

CONSTANTS
  NumServers,  \* length of the list of server addresses
  Configs,     \* RPCConcurrency, and whether there is RPCGetHttpDialContext
  Fields       \* fields of the result

ASSUME RPCCallAssumption ==
  /\ NumServers \in Nat
  /\ Servers = 1..NumServers
  /\ Configs \subseteq [conc : Int, dials : BOOLEAN]

VARIABLES
  n,         \* number of goroutines
  dials,     \* config implements dialConfigInterface
  next,      \* the address that is handed over next
  closed,    \* rpcAddrChan is closed
  wpc,       \* the goroutines
  waddr,     \* the address each works on
  respLock,  \* the goroutine that holds it, 0 if it is free
  ctxDone,   \* ctx is cancelled
  respErr,   \* respErrChan: the server whose answer is in it, 0 if empty
  result,    \* the server each field was decoded from, 0 if none
  carried    \* history: the fields that the accepted answer had

config == <<n, dials>>
decoded == <<result, carried>>
callVars ==
  <<config, next, closed, wpc, waddr, respLock, ctxDone, respErr, decoded>>
vars == <<promised, callVars>>

(* An RPCConcurrency of 0 means one goroutine per address; with a negative *)
(* one there is none.                                                      *)
NumWorkers(conc) ==
  IF conc = 0 THEN NumServers ELSE IF conc < 0 THEN 0 ELSE conc

Init ==
  /\ PInit
  /\ \E c \in Configs : n = NumWorkers(c.conc) /\ dials = c.dials
  /\ next = 1 /\ closed = FALSE
  /\ wpc = [w \in 1..n |-> "range"]
  /\ waddr = [w \in 1..n |-> 0]
  /\ respLock = 0
  /\ ctxDone = FALSE
  /\ respErr = 0
  /\ result = [f \in Fields |-> 0]
  /\ carried = {}

-----------------------------------------------------------------------------
(* The caller. *)

(* Mutant: one address too many is handed over. *)
FeedPastEnd(w) ==
  /\ next <= NumServers + 1
  /\ wpc[w] = "range"
  /\ next' = next + 1
  /\ tried' = tried \cup {next}
  /\ wpc' = [wpc EXCEPT ![w] = "post"]
  /\ waddr' = [waddr EXCEPT ![w] = next]
  /\ UNCHANGED <<answer, canceled, outcome, source, config, closed, respLock,
                 ctxDone, respErr, decoded>>

(* rpcAddrChan <- rpcAddr: goroutine w takes it. *)
Feed(w) ==
  /\ next <= NumServers
  /\ wpc[w] = "range"
  /\ next' = next + 1
  /\ tried' = tried \cup {next}
  /\ wpc' = [wpc EXCEPT ![w] = "post"]
  /\ waddr' = [waddr EXCEPT ![w] = next]
  /\ UNCHANGED <<answer, canceled, outcome, source, config, closed, respLock,
                 ctxDone, respErr, decoded>>

(* Mutant: an address is dropped when every goroutine is busy. *)
SkipAddrBusy ==
  /\ next <= NumServers
  /\ ctxDone \/ \A w \in 1..n : wpc[w] # "range"
  /\ next' = next + 1
  /\ UNCHANGED <<promised, config, closed, wpc, waddr, respLock, ctxDone,
                 respErr, decoded>>

(* The break leaves the select only: the loop goes on. *)
SkipAddr ==
  /\ next <= NumServers
  /\ ctxDone
  /\ next' = next + 1
  /\ UNCHANGED <<promised, config, closed, wpc, waddr, respLock, ctxDone,
                 respErr, decoded>>

CloseAddrChan ==
  /\ next = NumServers + 1 /\ ~closed
  /\ closed' = TRUE
  /\ UNCHANGED <<promised, config, next, wpc, waddr, respLock, ctxDone,
                 respErr, decoded>>

Outcome ==
  CASE canceled -> "canceled"
    [] ~canceled /\ respErr = 0 -> "network"
    [] ~canceled /\ respErr # 0 ->
         IF answer[respErr] = "error" THEN "error" ELSE "ok"

(* Mutant: the caller goes on as soon as ctx is cancelled. *)
ReturnEarly ==
  /\ closed /\ outcome = "pending"
  /\ ctxDone \/ \A w \in 1..n : wpc[w] = "done"
  /\ outcome' = Outcome
  /\ source' = IF canceled THEN 0 ELSE respErr
  /\ ctxDone' = TRUE
  /\ UNCHANGED <<tried, answer, canceled, config, next, closed, wpc, waddr,
                 respLock, respErr, decoded>>

(* wg.Wait, and what the caller makes of respErrChan and parentCtx. *)
Return ==
  /\ closed /\ outcome = "pending"
  /\ \A w \in 1..n : wpc[w] = "done"
  /\ outcome' = Outcome
  /\ source' = IF canceled THEN 0 ELSE respErr
  /\ ctxDone' = TRUE
  /\ UNCHANGED <<tried, answer, canceled, config, next, closed, wpc, waddr,
                 respLock, respErr, decoded>>

-----------------------------------------------------------------------------
(* The goroutines. *)

RangeEnds(w) ==
  /\ wpc[w] = "range" /\ closed
  /\ wpc' = [wpc EXCEPT ![w] = "done"]
  /\ UNCHANGED <<promised, config, next, closed, waddr, respLock, ctxDone,
                 respErr, decoded>>

(* Mutant: the goroutine goes on with the next address. *)
NoDialContextGoesOn(w) ==
  /\ wpc[w] = "post" /\ ~dials
  /\ wpc' = [wpc EXCEPT ![w] = "range"]
  /\ UNCHANGED <<promised, config, next, closed, waddr, respLock, ctxDone,
                 respErr, decoded>>

(* config is not a dialConfigInterface: the goroutine returns, and ctx is  *)
(* not cancelled.                                                          *)
NoDialContext(w) ==
  /\ wpc[w] = "post" /\ ~dials
  /\ wpc' = [wpc EXCEPT ![w] = "done"]
  /\ UNCHANGED <<promised, config, next, closed, waddr, respLock, ctxDone,
                 respErr, decoded>>

(* httpPost returns the body that the server sent. *)
PostReturns(w) ==
  /\ wpc[w] = "post" /\ dials
  /\ answer[waddr[w]] # "none"
  /\ wpc' = [wpc EXCEPT ![w] = "body"]
  /\ UNCHANGED <<promised, config, next, closed, waddr, respLock, ctxDone,
                 respErr, decoded>>

(* Mutant: a goroutine whose request fails returns. *)
PostFailsReturns(w) ==
  /\ wpc[w] = "post" /\ dials
  /\ wpc' = [wpc EXCEPT ![w] = "done"]
  /\ UNCHANGED <<promised, config, next, closed, waddr, respLock, ctxDone,
                 respErr, decoded>>

(* httpPost fails: a bad address, no connection, a request or an answer    *)
(* that is lost, another status, the timeout, or ctx.                      *)
PostFails(w) ==
  /\ wpc[w] = "post" /\ dials
  /\ wpc' = [wpc EXCEPT ![w] = IF ctxDone THEN "done" ELSE "range"]
  /\ UNCHANGED <<promised, config, next, closed, waddr, respLock, ctxDone,
                 respErr, decoded>>

(* respLock.Lock, but ctx is cancelled. *)
TooLate(w) ==
  /\ wpc[w] = "body" /\ respLock = 0
  /\ ctxDone
  /\ wpc' = [wpc EXCEPT ![w] = "done"]
  /\ UNCHANGED <<promised, config, next, closed, waddr, respLock, ctxDone,
                 respErr, decoded>>

(* Mutant: ctx is not looked at under respLock. *)
LockAnyway(w) ==
  /\ wpc[w] = "body" /\ respLock = 0
  /\ respLock' = w
  /\ wpc' = [wpc EXCEPT ![w] = "locked"]
  /\ UNCHANGED <<promised, config, next, closed, waddr, ctxDone, respErr,
                 decoded>>

(* respLock.Lock, and ctx is not cancelled yet. *)
Lock(w) ==
  /\ wpc[w] = "body" /\ respLock = 0
  /\ ~ctxDone
  /\ respLock' = w
  /\ wpc' = [wpc EXCEPT ![w] = "locked"]
  /\ UNCHANGED <<promised, config, next, closed, waddr, ctxDone, respErr,
                 decoded>>

(* The fields fs of a result are w's; json.Unmarshal leaves the others as  *)
(* they were.                                                              *)
Merge(fs, w) == [f \in Fields |-> IF f \in fs THEN waddr[w] ELSE result[f]]

(* json.Unmarshal fails.  A result with a field of another type is decoded *)
(* for the rest.                                                           *)
UnmarshalFails(w) ==
  LET a == answer[waddr[w]] IN
  /\ wpc[w] = "locked"
  /\ \/ a = "bad" /\ result' = result
     \/ a = "partial" /\ \E fs \in SUBSET Fields : result' = Merge(fs, w)
  /\ wpc' = [wpc EXCEPT ![w] = "range"]
  /\ respLock' = 0
  /\ UNCHANGED <<promised, config, next, closed, waddr, ctxDone, respErr,
                 carried>>

(* json.Unmarshal into the caller's result, of whose fields the answer has *)
(* some.                                                                   *)
Unmarshal(w) ==
  /\ wpc[w] = "locked"
  /\ answer[waddr[w]] \in Success \cup {"error"}
  /\ \E fs \in SUBSET Fields : carried' = fs /\ result' = Merge(fs, w)
  /\ wpc' = [wpc EXCEPT ![w] = "decide"]
  /\ UNCHANGED <<promised, config, next, closed, waddr, respLock, ctxDone,
                 respErr>>

(* json.Unmarshal sets resp to nil, and resp.Error panics. *)
UnmarshalNull(w) ==
  /\ wpc[w] = "locked" /\ answer[waddr[w]] = "null"
  /\ wpc' = [wpc EXCEPT ![w] = "panic"]
  /\ UNCHANGED <<promised, config, next, closed, waddr, respLock, ctxDone,
                 respErr, decoded>>

(* respErrChan <- ..., cancel, and respLock.Unlock. *)
Decide(w) ==
  /\ wpc[w] = "decide"
  /\ respErr = 0
  /\ respErr' = waddr[w]
  /\ ctxDone' = TRUE
  /\ wpc' = [wpc EXCEPT ![w] = "done"]
  /\ respLock' = 0
  /\ UNCHANGED <<promised, config, next, closed, waddr, decoded>>

(* The select takes <-ctx.Done(), if the caller cancelled in between. *)
DecideCanceled(w) ==
  /\ wpc[w] = "decide"
  /\ ctxDone
  /\ wpc' = [wpc EXCEPT ![w] = "done"]
  /\ respLock' = 0
  /\ UNCHANGED <<promised, config, next, closed, waddr, ctxDone, respErr,
                 decoded>>

-----------------------------------------------------------------------------
(* The environment. *)

(* A server handles a request that was sent to it. *)
Serve(s, a) ==
  /\ dials /\ s \in tried /\ answer[s] = "none"
  /\ answer' = [answer EXCEPT ![s] = a]
  /\ UNCHANGED <<tried, canceled, outcome, source, callVars>>

(* parentCtx is cancelled. *)
Cancel ==
  /\ outcome = "pending" /\ ~canceled
  /\ canceled' = TRUE
  /\ ctxDone' = TRUE
  /\ UNCHANGED <<tried, answer, outcome, source, config, next, closed, wpc,
                 waddr, respLock, respErr, decoded>>

Main == SkipAddr \/ CloseAddrChan \/ Return

Worker(w) ==
  \/ RangeEnds(w) \/ NoDialContext(w) \/ PostReturns(w) \/ PostFails(w)
  \/ TooLate(w) \/ Lock(w)
  \/ UnmarshalFails(w) \/ Unmarshal(w) \/ UnmarshalNull(w)
  \/ Decide(w) \/ DecideCanceled(w)

(* The panic of a goroutine ends the program. *)
Panicked == \E w \in 1..n : wpc[w] = "panic"

Next ==
  /\ ~Panicked
  /\ \/ Main
     \/ \E w \in 1..n : Feed(w) \/ Worker(w)
     \/ \E s \in Servers, a \in Answers : Serve(s, a)
     \/ Cancel

Spec == Init /\ [][Next]_vars

(* Requests end because of RPCTimeout, and some goroutine gets to run. *)
FairSpec ==
  /\ Spec
  /\ WF_vars(~Panicked /\ Main)
  /\ WF_vars(~Panicked /\ \E w \in 1..n : Feed(w) \/ Worker(w))

-----------------------------------------------------------------------------
(* Properties. *)

(* The variables keep their types. *)
TypeOK ==
  /\ tried \subseteq Servers
  /\ answer \in [Servers -> Answers \cup {"none"}]
  /\ canceled \in BOOLEAN /\ closed \in BOOLEAN /\ ctxDone \in BOOLEAN
  /\ outcome \in {"pending", "ok", "error", "network", "canceled"}
  /\ source \in Servers \cup {0} /\ respErr \in Servers \cup {0}
  /\ n \in Nat /\ dials \in BOOLEAN /\ next \in 1..(NumServers + 1)
  /\ wpc \in [1..n -> {"range", "post", "body", "locked", "decide", "panic",
                       "done"}]
  /\ waddr \in [1..n -> Servers \cup {0}]
  /\ respLock \in 0..n
  /\ result \in [Fields -> Servers \cup {0}] /\ carried \subseteq Fields

(* The fields that the answer of s has are its own; the others have their  *)
(* first value, or that of an answer that was refused.                     *)
ResultOf(s) ==
  \A f \in Fields :
    IF f \in carried THEN result[f] = s
    ELSE result[f] = 0 \/ answer[result[f]] = "partial"

(* When RPCCall reports success, what the deciding answer has is in the    *)
(* result, and nothing of a slower goroutine's answer.  What the answer    *)
(* lacks may be left over from an earlier answer, but only from one that   *)
(* could not be decoded: decoding merges.                                  *)
ResultOfDecider == outcome = "ok" => ResultOf(source)

(* After RPCCall has returned, no goroutine writes into the result, which  *)
(* belongs to the caller again.                                            *)
ResultKept == [][outcome # "pending" => result' = result]_vars

(* RPCCall keeps its promise: it ends once, with the answer of a server it *)
(* asked, and with errCodeNetworkError only after it has tried them all.   *)
KeepsPromise == PSpec

(* There is a goroutine for every address, or one that comes back for the  *)
(* next address.                                                           *)
Configured == n >= NumServers \/ (n > 0 /\ dials)

(* Every call of a client, of a wallet or with an RPCConfig, which all     *)
(* have RPCGetHttpDialContext, returns unless the program panics: the      *)
(* caller is never left waiting for a goroutine to take an address or to   *)
(* end.                                                                    *)
CallReturns == Configured => <>(outcome # "pending" \/ Panicked)

(* The converse: "RPCConfigInterface is the config interface for making    *)
(* rpc call", but a config with no more than its methods, or one with a    *)
(* negative RPCConcurrency, lets a call return only when the caller gives  *)
(* up, unless there is a goroutine for every address.                      *)
ReturnsOnlyConfigured == outcome # "pending" /\ ~canceled => Configured
=============================================================================
