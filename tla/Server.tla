------------------------------- MODULE Server -------------------------------
(***************************************************************************)
(* server/server.go: the HTTP server over the registry, from the moment a  *)
(* connection is accepted to the end of Shutdown, and the end of main      *)
(* after it.  Composes Registry; an endpoint is seen through what          *)
(* EndpointStandard and EndpointTokenWindow establish: it answers every    *)
(* request while it runs, and says 503 only when it was stopped.           *)
(*                                                                         *)
(* net/http is external and modelled from its use: a connection is tracked *)
(* from Accept to the last byte of its response; http.Shutdown closes the  *)
(* listener and waits until no tracked connection is left, or until its    *)
(* context expires.  A caller is one connection carrying one request.      *)
(***************************************************************************)
EXTENDS Registry

VARIABLES
    conn,      \* conn[c]: where the connection of c stands
    reply,     \* the answer its handler wrote
    active,    \* the counter of s.activeRequests
    spc,       \* where Shutdown, and main after it, stands
    timedOut,  \* http.Shutdown returned because its 30 seconds were over
    late       \* history: requests counted only after activeRequests.Wait returned

httpVars == <<conn, reply, active, late>>
shutdownVars == <<spc, timedOut>>
serverVars == <<vars, httpVars, shutdownVars>>

ServerInit ==
    /\ Init
    /\ conn = [c \in Callers |-> "none"]
    /\ reply = [c \in Callers |-> "none"]
    /\ active = 0
    /\ spc = "serving"
    /\ timedOut = FALSE
    /\ late = {}

Alive == spc # "exited"
Move(c, from, to) == Alive /\ conn[c] = from /\ conn' = [conn EXCEPT ![c] = to]

-----------------------------------------------------------------------------
(* NewRegistryWithOpts, called by New. *)
Setup == (Build \/ Built) /\ UNCHANGED <<httpVars, shutdownVars>>

(* The listener accepts a connection. *)
Accept(c) ==
    /\ phase = "ready" /\ spc = "serving"
    /\ Move(c, "none", "new")
    /\ UNCHANGED <<vars, reply, active, late, shutdownVars>>

(* Its request is read and the handler of New starts with registry.Match. *)
Request(c) ==
    /\ Move(c, "new", "match")
    /\ Ask(c)
    /\ UNCHANGED <<reply, active, late, shutdownVars>>

Match(c) ==
    /\ Alive
    /\ MatchFast(c) \/ MatchSlow(c)
    /\ UNCHANGED <<httpVars, shutdownVars>>

(* No endpoint: 404, and the request was never counted. *)
NotFound(c) ==
    /\ cpc[c] = "done" /\ got[c] = 0
    /\ Move(c, "match", "reply")
    /\ reply' = [reply EXCEPT ![c] = "notFound"]
    /\ UNCHANGED <<vars, active, late, shutdownVars>>

(* s.activeRequests.Add(1): only once Match has returned. *)
Count(c) ==
    /\ cpc[c] = "done" /\ got[c] # 0
    /\ Move(c, "match", "handle")
    /\ active' = active + 1
    /\ late' = IF spc \in {"stop", "stopped"} THEN late \cup {c} ELSE late
    /\ UNCHANGED <<vars, reply, shutdownVars>>

(* Mutant: the counter is not taken back. *)
FinishUncounted(c, answer) ==
    /\ Move(c, "handle", "reply")
    /\ reply' = [reply EXCEPT ![c] = answer]
    /\ UNCHANGED <<vars, active, late, shutdownVars>>

(* ep.Handle returns and the deferred Done runs. *)
Finished(c, answer) ==
    /\ Move(c, "handle", "reply")
    /\ reply' = [reply EXCEPT ![c] = answer]
    /\ active' = active - 1
    /\ UNCHANGED <<vars, late, shutdownVars>>

(* The endpoint is done with the request: it has answered 200 or 429 or seen the
   client leave, or it says 503 because it was stopped. *)
Handle(c) ==
    \/ Finished(c, "handled")
    \/ got[c] \notin running /\ Finished(c, "unavailable")

(* net/http sends the rest of the response and lets go of the connection. *)
Flush(c) ==
    /\ Move(c, "reply", "over")
    /\ UNCHANGED <<vars, reply, active, late, shutdownVars>>

-----------------------------------------------------------------------------
(* Shutdown *)

(* main was interrupted, or the TUI was quit: s.http.Shutdown closes the
   listener. *)
Shutdown ==
    /\ phase = "ready" /\ spc = "serving"
    /\ spc' = "http"
    /\ UNCHANGED <<vars, httpVars, timedOut>>

(* It closes the connections that have sent no request for a while. *)
CloseIdle(c) ==
    /\ spc = "http"
    /\ Move(c, "new", "over")
    /\ UNCHANGED <<vars, reply, active, late, shutdownVars>>

(* Mutant: http.Close instead of http.Shutdown. *)
HttpReturnAtOnce ==
    /\ spc = "http"
    /\ spc' = "wait"
    /\ UNCHANGED <<vars, httpVars, timedOut>>

(* s.http.Shutdown returns: no connection is left ... *)
HttpReturn ==
    /\ spc = "http"
    /\ \A c \in Callers : conn[c] \in {"none", "over"}
    /\ spc' = "wait"
    /\ UNCHANGED <<vars, httpVars, timedOut>>

(* ... or its context expires; nothing is closed then. *)
HttpTimeout ==
    /\ spc = "http"
    /\ spc' = "wait"
    /\ timedOut' = TRUE
    /\ UNCHANGED <<vars, httpVars>>

(* Mutant: Shutdown does not wait for the handlers. *)
WaitNot ==
    /\ spc = "wait"
    /\ spc' = "stop"
    /\ UNCHANGED <<vars, httpVars, timedOut>>

(* s.activeRequests.Wait returns; it has no time limit. *)
WaitReturn ==
    /\ spc = "wait"
    /\ active = 0
    /\ spc' = "stop"
    /\ UNCHANGED <<vars, httpVars, timedOut>>

(* s.registry.StopAll() *)
StopEndpoints ==
    /\ spc = "stop"
    /\ StopAll
    /\ spc' = "stopped"
    /\ UNCHANGED <<httpVars, timedOut>>

(* Shutdown and main return: the process ends with all its goroutines. *)
Exit ==
    /\ spc = "stopped"
    /\ spc' = "exited"
    /\ UNCHANGED <<vars, httpVars, timedOut>>

ShutdownStep == HttpReturn \/ HttpTimeout \/ WaitReturn \/ StopEndpoints \/ Exit
HandlerStep(c) ==
    Request(c) \/ Match(c) \/ NotFound(c) \/ Count(c) \/ Handle(c) \/ Flush(c)

ServerNext ==
    \/ Setup
    \/ \E c \in Callers : Accept(c) \/ HandlerStep(c) \/ CloseIdle(c)
    \/ Shutdown
    \/ ShutdownStep

(* Goroutines that can run do run, and an endpoint answers its requests, which
   is what Answered and AnsweredUntilStop say of it.  Nothing is assumed of
   clients, nor of whether the server is ever shut down. *)
ServerSpec ==
    /\ ServerInit
    /\ [][ServerNext]_serverVars
    /\ WF_serverVars(ShutdownStep)
    /\ \A c \in Callers : WF_serverVars(HandlerStep(c))

-----------------------------------------------------------------------------
(* "gracefully drains the server" (server.go).  A drain that ends in time lets
   every accepted request finish before the endpoints stop: none is cut off and
   none is told 503.  After the 30 seconds the handlers that were counted are
   still waited for; only a request that was then still in Match can meet a
   stopped endpoint. *)
DrainIsGraceful ==
    /\ \A c \in Callers : reply[c] = "unavailable" => timedOut /\ c \in late
    /\ (spc \in {"stop", "stopped", "exited"} /\ ~timedOut) =>
            \A c \in Callers : conn[c] \in {"none", "over"}

(* "StopAll stops all endpoint dispatchers" (registry.go): none of the endpoints
   created before it is left running, and after a drain that ended in time Match
   creates no endpoint behind its back. *)
NothingLeftRunning ==
    /\ running \cap (1 .. stopAllAt) = {}
    /\ (spc \in {"stopped", "exited"} /\ ~timedOut) => running = {}

(* Shutdown does not wait for ever: whoever it waits for is served, because the
   endpoints run until it has waited. *)
ShutdownReturns == (spc = "http") ~> (spc = "exited")
=============================================================================
