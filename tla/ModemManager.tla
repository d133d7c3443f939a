---------------------------- MODULE ModemManager ----------------------------
(***************************************************************************)
(* The modem manager's task                                                *)
(* (src/src/general/app/modem_manager/modem_manager.cpp).                  *)
(*                                                                         *)
(* cycle() takes the modem from a reset through AT configuration, SIM and  *)
(* network registration to an active data context, and then alternates     *)
(* between network status and the session layer.  Every AT exchange may    *)
(* fail; reset() is called from the main state, from failing exchanges     *)
(* and from inside processNetworkState.  One cycle is one step, except     *)
(* that a NET_STATUS cycle is one of several actions.                      *)
(***************************************************************************)
EXTENDS Integers

CONSTANTS
    MaxResets,     (* K_MODEM_MANAGER_MAX_RESET_PER_HOUR                *)
    CheckLimit,    (* the 4 of "++u8_check_retry > 4"                   *)
    SignalLimit,   (* the 19 of "ui8_signal_fail_cntr > 19"             *)
    AttemptLimit   (* MODEM_PDP_MAX_FAIL_ATTEMPTS                       *)

ASSUME ManagerAssumption ==
    /\ MaxResets \in Nat \ {0}
    /\ CheckLimit \in Nat
    /\ SignalLimit \in Nat
    /\ AttemptLimit \in Nat

VARIABLES
    est,        \* e_state
    cfgState,   \* e_config_state
    net,        \* e_network_state
    ctx,        \* e_pdpctx_state
    retry,      \* s_status.u8_check_retry, up to one above its limit
    resets,     \* s_reset.u8_count
    pending,    \* s_reset.ms_start is not 0: a reset waits for the modem
    late,       \* ... since more than 15 s
    throttled,  \* less than 10 s since ms_last_fail
    sigFail,    \* ui8_signal_fail_cntr, up to one above its limit
    reg,        \* s_registration.n_stat
    serving,    \* in_serving_cell()
    imei, imsi, \* ac_imei, ac_imsi have been read
    failApn,    \* num_fail_apnverify
    failAct,    \* num_fail_activate
    hasCtx,     \* n_ctx_state = CTX_ACTIVATED: has_data_connection()
    modem,      \* external: the modem
    ready,      \* m_ready: it has reported to be ready since the last reset
    powerdown,  \* m_powerdown: ... to have powered down
    pdp,        \* external: its data context is active
    good        \* external: the modem answers, the network accepts

stateVars   == <<est, cfgState, net, ctx>>
resetVars   == <<resets, pending, late>>
networkVars == <<throttled, sigFail, reg, serving>>
infoVars    == <<imei, imsi>>
failVars    == <<failApn, failAct>>
modemVars   == <<modem, ready, powerdown, pdp>>
mngrVars == <<est, cfgState, net, ctx, retry, resets, pending, late, throttled,
              sigFail, reg, serving, imei, imsi, failApn, failAct, hasCtx,
              modem, ready, powerdown, pdp, good>>

States == {"init", "atCheck", "atConfig", "modemInfo", "simInfo", "netStatus",
           "dataCnx", "sessions"}
ConfigStates == {"initConfig", "enableCmee", "enableUrc"}
NetworkStates == {"signal", "registration", "operator", "cell"}
ContextStates == {"lookup", "verify", "set", "activate", "activating",
                  "activated", "ready"}
\* "none": unknown or not registered; "other": searching, denied.
Registrations == {"none", "other", "registered"}
ModemStates == {"off", "stopping", "booting", "on"}

\* An AT exchange: what it may return.
Exchange(ok) == (ok => modem = "on") /\ (good /\ modem = "on" => ok)

\* A counter that saturates above the limit it is compared with.
Bumped(n, limit) == IF n > limit THEN n ELSE n + 1

(***************************************************************************)
(* reset()                                                                 *)
(***************************************************************************)
Exhausted == resets >= MaxResets   \* "try again after 1 hour"

Starts    == ~Exhausted /\ ~pending
\* Mutant of GivesUp: no timeout.
GivesUpPowerdown == ~Exhausted /\ pending /\ powerdown

GivesUp   == ~Exhausted /\ pending /\ (powerdown \/ late)
Completes == ~Exhausted /\ pending /\ ~powerdown /\ ~late /\ ready

\* The power key toggles a running modem off and a stopped one on; a software
\* reset needs a running modem; a power cut makes the key start it.
AfterReset(full, cut) ==
    CASE cut -> "booting"
      [] ~cut /\ full -> IF modem = "on" THEN "stopping" ELSE "booting"
      [] OTHER -> IF modem = "on" THEN "booting" ELSE modem

\* Mutants of StartReset: the activation count, the context's state survive.
StartKeepsFailures(full) ==
    LET cut == resets = MaxResets - 1 IN
    /\ resets' = resets + 1
    /\ pending' = TRUE
    /\ late' = FALSE
    /\ modem' = AfterReset(full \/ cut, cut)
    /\ ready' = FALSE
    /\ powerdown' = FALSE
    /\ pdp' = (pdp /\ modem' = "on")
    /\ sigFail' = 0
    /\ reg' = "none"
    /\ serving' = FALSE
    /\ imei' = FALSE
    /\ imsi' = FALSE
    /\ failApn' = 0
    /\ hasCtx' = FALSE
    /\ UNCHANGED failAct

StartKeepsContext(full) ==
    LET cut == resets = MaxResets - 1 IN
    /\ resets' = resets + 1
    /\ pending' = TRUE
    /\ late' = FALSE
    /\ modem' = AfterReset(full \/ cut, cut)
    /\ ready' = FALSE
    /\ powerdown' = FALSE
    /\ pdp' = (pdp /\ modem' = "on")
    /\ sigFail' = 0
    /\ reg' = "none"
    /\ serving' = FALSE
    /\ imei' = FALSE
    /\ imsi' = FALSE
    /\ failApn' = 0
    /\ failAct' = 0
    /\ UNCHANGED hasCtx

StartReset(full) ==
    LET cut == resets = MaxResets - 1 IN
    /\ resets' = resets + 1
    /\ pending' = TRUE
    /\ late' = FALSE
    /\ modem' = AfterReset(full \/ cut, cut)
    /\ ready' = FALSE
    /\ powerdown' = FALSE
    /\ pdp' = (pdp /\ modem' = "on")
    /\ sigFail' = 0
    /\ reg' = "none"
    /\ serving' = FALSE
    /\ imei' = FALSE
    /\ imsi' = FALSE
    /\ failApn' = 0
    /\ failAct' = 0
    /\ hasCtx' = FALSE

\* All of reset() but the states it assigns, which its callers may overwrite.
ResetEffects(full) ==
    IF Starts THEN StartReset(full)
    ELSE /\ pending' = (pending /\ ~GivesUp /\ ~Completes)
         /\ UNCHANGED <<resets, late, sigFail, reg, serving, infoVars,
                        failVars, hasCtx, modemVars>>

\* The states reset() assigns.
ResetStates ==
    IF Completes
    THEN est' = "atCheck" /\ cfgState' = "initConfig" /\ net' = "signal"
            /\ ctx' = "lookup"
    ELSE est' = "init" /\ UNCHANGED <<cfgState, net, ctx>>

CycleInit ==
    /\ est = "init"
    /\ ResetEffects(TRUE)
    /\ ResetStates
    /\ UNCHANGED <<retry, throttled, good>>

(***************************************************************************)
(* From the AT check to the SIM                                            *)
(***************************************************************************)
AtCheck(ok) ==
    /\ est = "atCheck"
    /\ Exchange(ok)
    /\ IF ok
       THEN retry' = 0 /\ est' = "atConfig" /\ cfgState' = "initConfig"
       ELSE /\ retry' = Bumped(retry, CheckLimit)
            /\ est' = IF retry' > CheckLimit THEN "init" ELSE "atCheck"
            /\ UNCHANGED cfgState
    /\ UNCHANGED <<net, ctx, resetVars, networkVars, infoVars, failVars, hasCtx,
                   modemVars, good>>

\* processConfigState
AtConfig(ok) ==
    /\ est = "atConfig"
    /\ Exchange(ok)
    /\ IF ok
       THEN /\ cfgState' = CASE cfgState = "initConfig" -> "enableCmee"
                             [] cfgState = "enableCmee" -> "enableUrc"
                             [] OTHER -> "initConfig"
            /\ est' = IF cfgState = "enableUrc" THEN "modemInfo" ELSE "atConfig"
            /\ UNCHANGED retry
       ELSE /\ retry' = Bumped(retry, CheckLimit)
            /\ est' = IF retry' > CheckLimit THEN "init" ELSE "atConfig"
            /\ UNCHANGED cfgState
    /\ UNCHANGED <<net, ctx, resetVars, networkVars, infoVars, failVars, hasCtx,
                   modemVars, good>>

ModemInfo(ok) ==
    /\ est = "modemInfo"
    /\ Exchange(ok)
    /\ imei' = (imei \/ ok)
    /\ est' = IF imei' THEN "simInfo" ELSE "atCheck"
    /\ UNCHANGED <<cfgState, net, ctx, retry, resetVars, networkVars, imsi,
                   failVars, hasCtx, modemVars, good>>

SimInfo(ok) ==
    /\ est = "simInfo"
    /\ Exchange(ok)
    /\ imsi \/ ok
    /\ imsi' = TRUE
    /\ est' = "netStatus"
    /\ net' = "signal"
    /\ retry' = 0
    /\ UNCHANGED <<cfgState, ctx, resetVars, networkVars, imei, failVars, hasCtx,
                   modemVars, good>>

SimError ==
    /\ est = "simInfo"
    /\ Exchange(FALSE)
    /\ ~imsi
    /\ retry' = Bumped(retry, CheckLimit)
    /\ IF retry' > CheckLimit
       THEN ResetEffects(FALSE) /\ ResetStates
       ELSE UNCHANGED <<stateVars, resetVars, sigFail, reg, serving,
                        infoVars, failVars, hasCtx, modemVars>>
    /\ UNCHANGED <<throttled, good>>

(***************************************************************************)
(* processNetworkState.  cycle() goes to DATA_CNX if it returns true and   *)
(* to AT_CHECK if not, whatever state reset() has assigned.                *)
(***************************************************************************)
NetStep(ok) ==
    /\ est = "netStatus"
    /\ est' = IF ok THEN "dataCnx" ELSE "atCheck"
    /\ UNCHANGED <<cfgState, retry, good>>

NoReset == UNCHANGED <<ctx, resetVars, infoVars, failVars, hasCtx, modemVars>>

\* Less than 10 s since the last failure, or than the update interval since
\* the last reading.
NetSkips ==
    /\ throttled \/ net = "signal"
    /\ NetStep(TRUE)
    /\ UNCHANGED <<net, networkVars>>
    /\ NoReset

\* The reset inside processNetworkState, when the counter passes its limit.
\* Of the states it assigns only those survive that nobody assigns after it.
ResetInside ==
    IF sigFail + 1 > SignalLimit
    THEN /\ IF Starts THEN StartReset(FALSE)
            ELSE /\ pending' = (pending /\ ~GivesUp /\ ~Completes)
                 /\ sigFail' = Bumped(sigFail, SignalLimit)
                 /\ UNCHANGED <<resets, late, reg, serving, infoVars,
                                failVars, hasCtx, modemVars>>
         /\ ctx' = IF Completes THEN "lookup" ELSE ctx
    ELSE /\ sigFail' = sigFail + 1
         /\ UNCHANGED <<reg, serving>>
         /\ NoReset

SignalFails ==
    /\ net = "signal" /\ ~throttled
    /\ Exchange(FALSE)
    /\ NetStep(FALSE)
    /\ throttled' = TRUE
    /\ ResetInside
    /\ UNCHANGED net

SignalRead ==
    /\ net = "signal" /\ ~throttled
    /\ Exchange(TRUE)
    /\ NetStep(TRUE)
    /\ UNCHANGED throttled
    /\ \/ /\ reg = "none"
          /\ net' = "registration"
          /\ UNCHANGED <<sigFail, reg, serving>> /\ NoReset
       \/ /\ reg # "none"   \* +CEREG came, or the operator is unknown
          /\ net' = "operator"
          /\ UNCHANGED <<sigFail, reg, serving>> /\ NoReset
       \/ /\ reg # "none" /\ serving
          /\ net' = "cell"
          /\ sigFail' = 0
          /\ UNCHANGED <<reg, serving>> /\ NoReset
       \/ /\ reg # "none" /\ ~serving
          /\ net' = "cell"
          /\ ResetInside

Registration(ok) ==
    /\ net = "registration" /\ ~throttled
    /\ Exchange(ok)
    /\ NetStep(TRUE)
    /\ net' = IF ok THEN "operator" ELSE "signal"
    /\ throttled' = ~ok
    /\ reg' \in CASE ~ok -> {reg}
                  [] ok /\ good -> {"registered"}
                  [] OTHER -> Registrations
    /\ UNCHANGED <<sigFail, serving>>
    /\ NoReset

Operator(ok) ==
    /\ net = "operator" /\ ~throttled
    /\ Exchange(ok)
    /\ NetStep(TRUE)
    /\ net' = "cell"
    /\ throttled' = ~ok
    /\ UNCHANGED <<sigFail, reg, serving>>
    /\ NoReset

\* get_cell_info: clears the cell first; an error is ignored.
CellInfo(ok) == Exchange(ok) /\ serving' \in {ok, ok /\ good}

Cell(ok) ==
    /\ net = "cell" /\ ~throttled
    /\ NetStep(TRUE)
    /\ CellInfo(ok)
    /\ net' = "signal"
    /\ UNCHANGED <<throttled, sigFail, reg>>
    /\ NoReset

NetStatus ==
    \/ NetSkips \/ SignalFails \/ SignalRead
    \/ \E ok \in BOOLEAN : Registration(ok) \/ Operator(ok) \/ Cell(ok)

(***************************************************************************)
(* processDataConnState: false leads back to NET_STATUS                    *)
(***************************************************************************)
DataStep == est = "dataCnx" /\ UNCHANGED <<cfgState, net, retry, resetVars,
                throttled, sigFail, reg, infoVars, modem, ready, powerdown,
                good>>

LookupApn ==
    /\ ctx = "lookup"
    /\ DataStep
    /\ ctx' = IF imsi THEN "verify" ELSE "lookup"
    /\ est' = IF imsi THEN "dataCnx" ELSE "netStatus"
    /\ UNCHANGED <<serving, failVars, hasCtx, pdp>>

VerifyApn(match) ==
    /\ ctx = "verify"
    /\ match => modem = "on"
    /\ DataStep
    /\ IF match
       THEN failApn' = 0 /\ ctx' = "activate" /\ UNCHANGED est
       ELSE /\ failApn' = failApn + 1
            /\ ctx' = "set"
            /\ est' = IF failApn' > AttemptLimit THEN "init" ELSE "dataCnx"
    /\ UNCHANGED <<serving, failAct, hasCtx, pdp>>

SetApn ==
    /\ ctx = "set"
    /\ DataStep
    /\ est' = "netStatus"
    /\ ctx' = "lookup"
    /\ pdp' \in {pdp, FALSE}
    /\ UNCHANGED <<serving, failVars, hasCtx>>

ActivatePdp ==
    /\ ctx = "activate"
    /\ DataStep
    /\ reg = "registered" \/ serving
    /\ ctx' = "activating"
    /\ UNCHANGED <<est, serving, failVars, hasCtx, pdp>>

\* No cell yet: look again.
AwaitCell ==
    /\ ctx = "activate"
    /\ DataStep
    /\ reg # "registered" /\ ~serving
    /\ est' = "netStatus"
    /\ \E ok \in BOOLEAN : CellInfo(ok)
    /\ UNCHANGED <<ctx, failVars, hasCtx, pdp>>

ActivatingOk ==
    /\ ctx = "activating"
    /\ modem = "on"
    /\ DataStep
    /\ failAct' = 0
    /\ ctx' = "activated"
    /\ pdp' = TRUE
    /\ UNCHANGED <<est, serving, failApn, hasCtx>>

ActivatingError ==
    /\ ctx = "activating"
    /\ Exchange(FALSE)
    /\ DataStep
    /\ failAct' = failAct + 1
    /\ IF failAct' > AttemptLimit
       THEN est' = "init" /\ UNCHANGED ctx
       ELSE est' = "netStatus" /\ ctx' = "lookup"
    /\ UNCHANGED <<serving, failApn, hasCtx, pdp>>

ActivatingTimeout ==
    /\ ctx = "activating"
    /\ Exchange(FALSE)
    /\ DataStep
    /\ est' = "init"
    /\ UNCHANGED <<ctx, serving, failVars, hasCtx, pdp>>

\* get_active_connection, then the session layer's init_sessions.
Activated(ok) ==
    /\ ctx = "activated"
    /\ ok => modem = "on" /\ pdp
    /\ good /\ modem = "on" /\ pdp => ok
    /\ DataStep
    /\ IF ok
       THEN hasCtx' = TRUE /\ ctx' = "ready" /\ UNCHANGED est
       ELSE est' = "netStatus" /\ UNCHANGED <<hasCtx, ctx>>
    /\ UNCHANGED <<serving, failVars, pdp>>

ContextReady ==
    /\ ctx = "ready"
    /\ DataStep
    /\ est' = "sessions"
    /\ UNCHANGED <<ctx, serving, failVars, hasCtx, pdp>>

DataConn ==
    \/ LookupApn \/ SetApn \/ ActivatePdp \/ AwaitCell
    \/ ActivatingOk \/ ActivatingError \/ ActivatingTimeout \/ ContextReady
    \/ \E ok \in BOOLEAN : VerifyApn(ok) \/ Activated(ok)

(***************************************************************************)
(* The session layer (PdpSessions), by its result                          *)
(***************************************************************************)
SessionsOk ==
    /\ est = "sessions"
    /\ est' = "netStatus"
    /\ UNCHANGED <<cfgState, net, ctx, retry, resetVars, networkVars, infoVars,
                   failVars, hasCtx, modemVars, good>>

SessionsFail ==
    /\ est = "sessions"
    /\ ~good
    /\ retry' = Bumped(retry, CheckLimit)
    /\ IF retry' > CheckLimit
       THEN ResetEffects(FALSE) /\ ResetStates
       ELSE /\ est' = "netStatus"
            /\ UNCHANGED <<cfgState, net, ctx, resetVars, sigFail, reg,
                           serving, infoVars, failVars, hasCtx, modemVars>>
    /\ UNCHANGED <<throttled, good>>

Cycle ==
    \/ CycleInit
    \/ \E ok \in BOOLEAN : AtCheck(ok) \/ AtConfig(ok) \/ ModemInfo(ok) \/ SimInfo(ok)
    \/ SimError \/ NetStatus \/ DataConn \/ SessionsOk \/ SessionsFail

(***************************************************************************)
(* Time, the modem and its network                                         *)
(***************************************************************************)

\* The hour of the reset budget is over.
HourPasses ==
    /\ resets > 0
    /\ resets' = 0
    /\ UNCHANGED <<stateVars, retry, pending, late, networkVars, infoVars,
                   failVars, hasCtx, modemVars, good>>

\* 15 s since the reset.  While the manager polls a good modem, it is ready
\* earlier.
ResetLate ==
    /\ pending /\ ~late
    /\ ~good \/ est # "init" \/ Exhausted \/ modem = "off"
    /\ late' = TRUE
    /\ UNCHANGED <<stateVars, retry, resets, pending, networkVars, infoVars,
                   failVars, hasCtx, modemVars, good>>

\* 10 s since the last failure.
ThrottleEnds ==
    /\ throttled
    /\ throttled' = FALSE
    /\ UNCHANGED <<stateVars, retry, resetVars, sigFail, reg, serving,
                   infoVars, failVars, hasCtx, modemVars, good>>

\* The modem has booted or shut down and says so.
ModemSettles ==
    /\ modem \in {"booting", "stopping"}
    /\ modem' = IF modem = "booting" THEN "on" ELSE "off"
    /\ ready' = (ready \/ modem = "booting")
    /\ powerdown' = (powerdown \/ modem = "stopping")
    /\ UNCHANGED <<stateVars, retry, resetVars, networkVars, infoVars, failVars,
                   hasCtx, pdp, good>>

\* +CEREG
RegistrationChanges ==
    /\ modem = "on"
    /\ reg' \in IF good THEN {"registered"} ELSE Registrations
    /\ reg' # reg
    /\ UNCHANGED <<stateVars, retry, resetVars, throttled, sigFail, serving,
                   infoVars, failVars, hasCtx, modemVars, good>>

\* The network drops the context or the modem restarts by itself.
ContextLost ==
    /\ modem = "on" /\ ~good
    /\ pdp' = FALSE
    /\ modem' \in {"on", "booting"}
    /\ <<pdp', modem'>> # <<pdp, modem>>
    /\ UNCHANGED <<stateVars, retry, resetVars, networkVars, infoVars, failVars,
                   hasCtx, ready, powerdown, good>>

Improves == /\ good' = ~good
            /\ UNCHANGED <<stateVars, retry, resetVars, networkVars, infoVars,
                           failVars, hasCtx, modemVars>>

Outside == HourPasses \/ ResetLate \/ ThrottleEnds \/ ModemSettles \/ RegistrationChanges
              \/ ContextLost \/ Improves

(***************************************************************************)
(* Specification                                                           *)
(***************************************************************************)
Init ==
    /\ est = "init" /\ cfgState = "initConfig" /\ net = "signal" /\ ctx = "lookup"
    /\ retry = 0
    /\ resets = 0 /\ pending = FALSE /\ late = FALSE
    /\ throttled = TRUE
    /\ sigFail = 0 /\ reg = "none" /\ serving = FALSE
    /\ imei = FALSE /\ imsi = FALSE
    /\ failApn = 0 /\ failAct = 0
    /\ hasCtx = FALSE
    /\ modem \in {"on", "off"} /\ ready = FALSE /\ powerdown = FALSE /\ pdp = FALSE
    /\ good \in BOOLEAN

Next == Cycle \/ Outside

Spec == Init /\ [][Next]_mngrVars

\* The task keeps running, time passes, a modem that boots or shuts down gets
\* there, and the APN that SET_APN writes is not refused for ever.
Fairness ==
    /\ WF_mngrVars(Cycle)
    /\ WF_mngrVars(HourPasses)
    /\ WF_mngrVars(ResetLate)
    /\ WF_mngrVars(ThrottleEnds)
    /\ WF_mngrVars(ModemSettles)
    /\ SF_mngrVars(VerifyApn(TRUE))

FairSpec == Spec /\ Fairness

(***************************************************************************)
(* Properties                                                              *)
(***************************************************************************)

\* Type invariant; the counters stop at their limits.  The two of the data
\* context may pass theirs by two: an overwritten reset can complete while
\* they wait for the next one, without clearing them (reset, VERIFY_APN,
\* ACTIVATING).
TypeOK ==
    /\ est \in States
    /\ cfgState \in ConfigStates
    /\ net \in NetworkStates
    /\ ctx \in ContextStates
    /\ retry \in 0..CheckLimit + 1
    /\ resets \in 0..MaxResets
    /\ pending \in BOOLEAN
    /\ late \in BOOLEAN
    /\ throttled \in BOOLEAN
    /\ sigFail \in 0..SignalLimit + 1
    /\ reg \in Registrations
    /\ serving \in BOOLEAN
    /\ imei \in BOOLEAN
    /\ imsi \in BOOLEAN
    /\ failApn \in 0..AttemptLimit + 2
    /\ failAct \in 0..AttemptLimit + 2
    /\ hasCtx \in BOOLEAN
    /\ modem \in ModemStates
    /\ ready \in BOOLEAN
    /\ powerdown \in BOOLEAN
    /\ pdp \in BOOLEAN
    /\ good \in BOOLEAN

\* reset() keeps the manager in STATE_INIT until the modem is ready or given
\* up.  processNetworkState's two resets do not: cycle() overwrites the state.
ResetHolds == pending => est = "init"

\* Where no reset is overwritten, get_connection_state never tells the other
\* tasks of a data connection while the manager is still looking for one:
\* n_ctx_state is cleared before e_pdpctx_state starts again, over every
\* reset, from wherever it is called, and every way back from a failed
\* activation.
ConnectedIsReady == []ResetHolds => [](hasCtx => ctx = "ready")

\* Once the modem and the network answer, the data connection comes up and
\* stays, whatever failed before and however many resets were used up: unless
\* a reset was left behind by a state that overwrote STATE_INIT, or the
\* context was lost without a word.
ComesBack ==
    /\ <>[]good
    /\ []ResetHolds
    /\ <>[](ctx \in {"activated", "ready"} => pdp)
    => <>[]hasCtx

\* "PDPCTX_STATE_READY, // ready for sessions/sockets": the session layer runs
\* on a data context (modem_manager.h).
SessionsHaveContext == est = "sessions" => hasCtx
=============================================================================
