------------------------ MODULE ModemManager_proofs ------------------------
(***************************************************************************)
(* ConnectedIsReady and TypeOK, for every value of the limits and of the   *)
(* reset budget.                                                           *)
(***************************************************************************)
EXTENDS ModemManager, TLAPS

(***************************************************************************)
(* ConnectedIsReady                                                        *)
(***************************************************************************)

\* While a reset waits for the modem, the context is already unknown: so its
\* completion finds nothing to take back when it restarts e_pdpctx_state.
ConnectedInv ==
    /\ hasCtx => ctx = "ready"
    /\ pending => ~hasCtx

\* The whole of reset(), from any state in which a pending reset has cleared
\* the context.
LEMMA ResetConnected ==
    ASSUME ConnectedInv, NEW full \in BOOLEAN,
           ResetEffects(full), ResetStates
    PROVE  ConnectedInv'
<1>1. CASE Starts
  <2>1. StartReset(full)
    BY <1>1 DEF ResetEffects
  <2>2. ~hasCtx'
    BY <2>1 DEF StartReset
  <2> QED
    BY <2>2 DEF ConnectedInv
<1>2. CASE ~Starts /\ Completes
  <2>1. ~hasCtx /\ UNCHANGED hasCtx
    BY <1>2 DEF ResetEffects, Completes, ConnectedInv
  <2> QED
    BY <2>1 DEF ConnectedInv
<1>3. CASE ~Starts /\ ~Completes
  <2>1. UNCHANGED <<hasCtx, ctx>> /\ (pending' => pending)
    BY <1>3 DEF ResetEffects, ResetStates
  <2> QED
    BY <2>1 DEF ConnectedInv
<1> QED
  BY <1>1, <1>2, <1>3

\* The reset inside processNetworkState, which runs with no reset pending.
LEMMA InsideConnected ==
    ASSUME ConnectedInv, ~pending, ResetInside
    PROVE  ConnectedInv'
<1>1. CASE sigFail + 1 > SignalLimit /\ Starts
  <2>1. StartReset(FALSE)
    BY <1>1 DEF ResetInside
  <2>2. ~hasCtx'
    BY <2>1 DEF StartReset
  <2> QED
    BY <2>2 DEF ConnectedInv
<1>2. CASE sigFail + 1 > SignalLimit /\ ~Starts
  <2>1. ~Completes
    BY DEF Completes
  <2>2. UNCHANGED <<hasCtx, ctx>> /\ ~pending'
    BY <1>2, <2>1 DEF ResetInside
  <2> QED
    BY <2>2 DEF ConnectedInv
<1>3. CASE ~(sigFail + 1 > SignalLimit)
  BY <1>3 DEF ResetInside, NoReset, ConnectedInv, resetVars
<1> QED
  BY <1>1, <1>2, <1>3

LEMMA NetConnected ==
    ASSUME ConnectedInv, ResetHolds, NetStatus
    PROVE  ConnectedInv'
<1>1. est = "netStatus" /\ ~pending
  BY DEF NetStatus, NetSkips, SignalFails, SignalRead, Registration, Operator,
         Cell, NetStep, ResetHolds
<1>2. NoReset => ConnectedInv'
  BY DEF NoReset, resetVars, ConnectedInv
<1>3. CASE NetSkips
  BY <1>2, <1>3 DEF NetSkips
<1>4. CASE SignalFails
  BY <1>1, <1>4, InsideConnected DEF SignalFails
<1>5. CASE SignalRead
  <2>1. ResetInside \/ NoReset
    BY <1>5 DEF SignalRead
  <2> QED
    BY <1>1, <1>2, <2>1, InsideConnected
<1>6. CASE \E ok \in BOOLEAN : Registration(ok) \/ Operator(ok) \/ Cell(ok)
  BY <1>2, <1>6 DEF Registration, Operator, Cell
<1> QED
  BY <1>3, <1>4, <1>5, <1>6 DEF NetStatus

LEMMA DataConnected ==
    ASSUME ConnectedInv, ResetHolds, DataConn
    PROVE  ConnectedInv'
<1> USE DEF ConnectedInv, DataStep, resetVars, failVars
<1>1. CASE LookupApn
  BY <1>1 DEF LookupApn
<1>2. CASE SetApn
  BY <1>2 DEF SetApn
<1>3. CASE ActivatePdp
  BY <1>3 DEF ActivatePdp
<1>4. CASE AwaitCell
  BY <1>4 DEF AwaitCell
<1>5. CASE ActivatingOk
  BY <1>5 DEF ActivatingOk
<1>6. CASE ActivatingError
  BY <1>6 DEF ActivatingError
<1>7. CASE ActivatingTimeout
  BY <1>7 DEF ActivatingTimeout
<1>8. CASE ContextReady
  BY <1>8 DEF ContextReady
<1>9. CASE \E ok \in BOOLEAN : VerifyApn(ok)
  BY <1>9 DEF VerifyApn
<1>10. CASE \E ok \in BOOLEAN : Activated(ok)
  <2>1. ~pending'
    BY <1>10 DEF Activated, ResetHolds
  <2> QED
    BY <1>10, <2>1 DEF Activated
<1> QED
  BY <1>1, <1>2, <1>3, <1>4, <1>5, <1>6, <1>7, <1>8, <1>9, <1>10 DEF DataConn

LEMMA CycleConnected ==
    ASSUME ConnectedInv, ResetHolds, Cycle
    PROVE  ConnectedInv'
<1> USE DEF resetVars, failVars, stateVars
<1>1. CASE CycleInit
  BY <1>1, ResetConnected DEF CycleInit
<1>2. CASE \E ok \in BOOLEAN : AtCheck(ok) \/ AtConfig(ok) \/ ModemInfo(ok) \/ SimInfo(ok)
  BY <1>2 DEF AtCheck, AtConfig, ModemInfo, SimInfo, ConnectedInv
<1>3. CASE SimError
  <2>1. CASE retry' > CheckLimit
    BY <1>3, <2>1, ResetConnected DEF SimError
  <2>2. CASE ~(retry' > CheckLimit)
    BY <1>3, <2>2 DEF SimError, ConnectedInv
  <2> QED
    BY <2>1, <2>2
<1>4. CASE NetStatus
  BY <1>4, NetConnected
<1>5. CASE DataConn
  BY <1>5, DataConnected
<1>6. CASE SessionsOk
  BY <1>6 DEF SessionsOk, ConnectedInv
<1>7. CASE SessionsFail
  <2>1. CASE retry' > CheckLimit
    BY <1>7, <2>1, ResetConnected DEF SessionsFail
  <2>2. CASE ~(retry' > CheckLimit)
    BY <1>7, <2>2 DEF SessionsFail, ConnectedInv
  <2> QED
    BY <2>1, <2>2
<1> QED
  BY <1>1, <1>2, <1>3, <1>4, <1>5, <1>6, <1>7 DEF Cycle

LEMMA OutsideConnected ==
    ASSUME ConnectedInv, Outside
    PROVE  ConnectedInv'
BY DEF Outside, HourPasses, ResetLate, ThrottleEnds, ModemSettles,
       RegistrationChanges, ContextLost, Improves, ConnectedInv, resetVars,
       stateVars

\* Where no reset is overwritten, get_connection_state tells of a data
\* connection only while the manager's context state is READY
\* (modem_manager.cpp, reset, processDataConnState, has_data_connection).
THEOREM SpecConnectedIsReady == Spec => ConnectedIsReady
<1>1. Init => ConnectedInv
  BY DEF Init, ConnectedInv
<1>2. ConnectedInv /\ ResetHolds /\ [Next]_mngrVars => ConnectedInv'
  <2> SUFFICES ASSUME ConnectedInv, ResetHolds, [Next]_mngrVars
               PROVE  ConnectedInv'
    OBVIOUS
  <2>1. CASE Cycle
    BY <2>1, CycleConnected
  <2>2. CASE Outside
    BY <2>2, OutsideConnected
  <2>3. CASE UNCHANGED mngrVars
    BY <2>3 DEF ConnectedInv, mngrVars
  <2> QED
    BY <2>1, <2>2, <2>3 DEF Next
<1>3. ConnectedInv => (hasCtx => ctx = "ready")
  BY DEF ConnectedInv
<1> QED
  BY <1>1, <1>2, <1>3, PTL DEF Spec, ConnectedIsReady

(***************************************************************************)
(* TypeOK                                                                  *)
(***************************************************************************)

\* A count of failures of the data context passes its limit only on the way to
\* STATE_INIT.  It may leave it uncleared, by the completion of a reset that
\* was overwritten: but then no reset is pending, and the next visit ends with
\* one that clears the count.
FailsOK(fails) ==
    /\ fails = AttemptLimit + 1 => est = "init" \/ ~pending
    /\ fails = AttemptLimit + 2 => est = "init" /\ ~pending

TypeInv == TypeOK /\ FailsOK(failApn) /\ FailsOK(failAct)

\* The part of the type that reset() may disturb, but for the states.
ResetType ==
    /\ resets \in 0..MaxResets
    /\ pending \in BOOLEAN
    /\ late \in BOOLEAN
    /\ sigFail \in 0..SignalLimit + 1
    /\ reg \in Registrations
    /\ serving \in BOOLEAN
    /\ imei \in BOOLEAN
    /\ imsi \in BOOLEAN
    /\ failApn \in 0..AttemptLimit + 2
    /\ failAct \in 0..AttemptLimit + 2
    /\ hasCtx \in BOOLEAN
    /\ modem \in ModemStates
    /\ ready \in BOOLEAN
    /\ powerdown \in BOOLEAN
    /\ pdp \in BOOLEAN

LEMMA AfterResetType ==
    ASSUME modem \in ModemStates, NEW full \in BOOLEAN, NEW cut \in BOOLEAN
    PROVE  AfterReset(full, cut) \in ModemStates
<1>1. CASE cut
  BY <1>1 DEF AfterReset, ModemStates
<1>2. CASE ~cut /\ full
  BY <1>2 DEF AfterReset, ModemStates
<1>3. CASE ~cut /\ ~full
  BY <1>3 DEF AfterReset, ModemStates
<1> QED
  BY <1>1, <1>2, <1>3

LEMMA StartResetType ==
    ASSUME TypeOK, ~Exhausted, NEW full \in BOOLEAN, StartReset(full)
    PROVE  ResetType' /\ failApn' = 0 /\ failAct' = 0 /\ pending'
<1> DEFINE cut == resets = MaxResets - 1
<1>1. modem' \in ModemStates
  <2>1. AfterReset(full \/ cut, cut) \in ModemStates
    <3>1. cut \in BOOLEAN /\ (full \/ cut) \in BOOLEAN
      OBVIOUS
    <3> HIDE DEF cut
    <3> QED
      BY <3>1, AfterResetType DEF TypeOK
  <2> QED
    BY <2>1 DEF StartReset
<1>2. resets + 1 \in 0..MaxResets
  BY ManagerAssumption DEF TypeOK, Exhausted
<1>3. 0 \in 0..SignalLimit + 1 /\ 0 \in 0..AttemptLimit + 2
  BY ManagerAssumption
<1>4. pdp' \in BOOLEAN
  BY DEF TypeOK, StartReset
<1> QED
  BY <1>1, <1>2, <1>3, <1>4 DEF StartReset, ResetType, TypeOK, Registrations

\* The whole of reset(), whoever calls it.
LEMMA ResetTypes ==
    ASSUME TypeInv, NEW full \in BOOLEAN, ResetEffects(full), ResetStates,
           retry' \in 0..CheckLimit + 1, UNCHANGED <<throttled, good>>
    PROVE  TypeInv'
<1>1. est' \in States /\ cfgState' \in ConfigStates
      /\ net' \in NetworkStates /\ ctx' \in ContextStates
  BY DEF ResetStates, TypeInv, TypeOK, States, ConfigStates, NetworkStates,
         ContextStates
<1>2. CASE Starts
  <2>1. ResetType' /\ failApn' = 0 /\ failAct' = 0
    BY <1>2, StartResetType DEF ResetEffects, Starts, TypeInv
  <2>2. 0 # AttemptLimit + 1 /\ 0 # AttemptLimit + 2
    BY ManagerAssumption
  <2> QED
    BY <1>1, <2>1, <2>2 DEF TypeInv, TypeOK, ResetType, FailsOK
<1>3. CASE ~Starts
  <2>1. ResetType' /\ UNCHANGED failVars
    BY <1>3 DEF ResetEffects, infoVars, failVars, modemVars, ResetType, TypeInv,
                TypeOK
  <2>2. Completes => pending /\ ~pending'
    BY <1>3 DEF ResetEffects, Completes
  <2>3. ~Completes => est' = "init"
    BY DEF ResetStates
  <2>4. pending' => pending
    BY <1>3 DEF ResetEffects
  <2> QED
    BY <1>1, <2>1, <2>2, <2>3, <2>4 DEF TypeInv, TypeOK, ResetType, FailsOK,
       failVars
<1> QED
  BY <1>2, <1>3

LEMMA BumpedType ==
    ASSUME NEW limit \in Nat, NEW n \in 0..limit + 1
    PROVE  Bumped(n, limit) \in 0..limit + 1
BY DEF Bumped

\* The reset inside processNetworkState, whose states cycle() overwrites.
LEMMA InsideType ==
    ASSUME TypeInv, ResetInside, est # "init"
    PROVE  /\ ResetType' /\ ctx' \in ContextStates
           /\ \A f \in {failApn', failAct'} :
                 f # AttemptLimit + 2 /\ (f = AttemptLimit + 1 => ~pending')
<1>1. CASE sigFail + 1 > SignalLimit /\ Starts
  <2>1. ResetType' /\ failApn' = 0 /\ failAct' = 0
    BY <1>1, StartResetType DEF ResetInside, Starts, TypeInv
  <2>2. 0 # AttemptLimit + 1 /\ 0 # AttemptLimit + 2
    BY ManagerAssumption
  <2>3. ctx' \in ContextStates
    BY <1>1 DEF ResetInside, TypeInv, TypeOK, ContextStates
  <2> QED
    BY <2>1, <2>2, <2>3
<1>2. CASE sigFail + 1 > SignalLimit /\ ~Starts
  <2>1. sigFail' \in 0..SignalLimit + 1
    BY <1>2, BumpedType, ManagerAssumption DEF ResetInside, TypeInv, TypeOK
  <2>2. ctx' \in ContextStates
    BY <1>2 DEF ResetInside, TypeInv, TypeOK, ContextStates
  <2>3. pending' \in BOOLEAN /\ (pending' => pending)
    BY <1>2 DEF ResetInside, TypeInv, TypeOK
  <2>4. UNCHANGED <<resets, late, reg, serving, imei, imsi, failApn, failAct,
                    hasCtx, modem, ready, powerdown, pdp>>
    BY <1>2 DEF ResetInside, infoVars, failVars, modemVars
  <2> QED
    BY <2>1, <2>2, <2>3, <2>4 DEF TypeInv, TypeOK, ResetType, FailsOK
<1>3. CASE ~(sigFail + 1 > SignalLimit)
  <2>1. sigFail' \in 0..SignalLimit + 1
    BY <1>3, ManagerAssumption DEF ResetInside, TypeInv, TypeOK
  <2>2. UNCHANGED <<resets, pending, late, reg, serving, imei, imsi, failApn,
                    failAct, hasCtx, modem, ready, powerdown, pdp, ctx>>
    BY <1>3 DEF ResetInside, NoReset, resetVars, infoVars, failVars, modemVars
  <2> QED
    BY <2>1, <2>2 DEF TypeInv, TypeOK, ResetType, FailsOK
<1> QED
  BY <1>1, <1>2, <1>3

LEMMA NetType ==
    ASSUME TypeInv, NetStatus
    PROVE  TypeInv'
<1>1. est = "netStatus" /\ est' \in {"dataCnx", "atCheck"} /\ UNCHANGED
        <<cfgState, retry, good>>
  BY DEF NetStatus, NetSkips, SignalFails, SignalRead, Registration, Operator,
         Cell, NetStep
<1>2. throttled' \in BOOLEAN /\ net' \in NetworkStates
  BY DEF NetStatus, NetSkips, SignalFails, SignalRead, Registration, Operator,
         Cell, NetStep, networkVars, TypeInv, TypeOK, NetworkStates
<1>3. ASSUME ResetInside
      PROVE  TypeInv'
  <2>1. /\ ResetType' /\ ctx' \in ContextStates
        /\ \A f \in {failApn', failAct'} :
              f # AttemptLimit + 2 /\ (f = AttemptLimit + 1 => ~pending')
    BY <1>1, <1>3, InsideType
  <2> QED
    BY <1>1, <1>2, <2>1 DEF TypeInv, TypeOK, ResetType, FailsOK, States
<1>4. ASSUME NoReset, sigFail' \in 0..SignalLimit + 1, reg' \in Registrations,
             serving' \in BOOLEAN
      PROVE  TypeInv'
  <2>1. UNCHANGED <<ctx, resets, pending, late, imei, imsi, failApn, failAct,
                    hasCtx, modem, ready, powerdown, pdp>>
    BY <1>4 DEF NoReset, resetVars, infoVars, failVars, modemVars
  <2> QED
    BY <1>1, <1>2, <1>4, <2>1 DEF TypeInv, TypeOK, FailsOK, States
<1>5. CASE NetSkips
  BY <1>4, <1>5 DEF NetSkips, networkVars, TypeInv, TypeOK
<1>6. CASE SignalFails
  BY <1>3, <1>6 DEF SignalFails
<1>7. CASE SignalRead
  <2>1. ResetInside \/ (NoReset /\ sigFail' \in {sigFail, 0} /\ UNCHANGED <<reg, serving>>)
    BY <1>7 DEF SignalRead
  <2>2. sigFail' \in {sigFail, 0} => sigFail' \in 0..SignalLimit + 1
    BY ManagerAssumption DEF TypeInv, TypeOK
  <2> QED
    BY <1>3, <1>4, <2>1, <2>2 DEF TypeInv, TypeOK
<1>8. ASSUME NEW ok \in BOOLEAN, Registration(ok)
      PROVE  TypeInv'
  <2>1. reg' \in Registrations
    BY <1>8 DEF Registration, TypeInv, TypeOK, Registrations
  <2> QED
    BY <1>4, <1>8, <2>1 DEF Registration, TypeInv, TypeOK
<1>9. ASSUME NEW ok \in BOOLEAN, Operator(ok)
      PROVE  TypeInv'
  BY <1>4, <1>9 DEF Operator, TypeInv, TypeOK
<1>10. ASSUME NEW ok \in BOOLEAN, Cell(ok)
       PROVE  TypeInv'
  BY <1>4, <1>10 DEF Cell, CellInfo, TypeInv, TypeOK
<1> QED
  BY <1>5, <1>6, <1>7, <1>8, <1>9, <1>10 DEF NetStatus

LEMMA DataType ==
    ASSUME TypeInv, DataConn
    PROVE  TypeInv'
<1>1. /\ est = "dataCnx"
      /\ UNCHANGED <<cfgState, net, retry, resets, pending, late, throttled,
                     sigFail, reg, imei, imsi, modem, ready, powerdown, good>>
  BY DEF DataConn, LookupApn, VerifyApn, SetApn, ActivatePdp, AwaitCell,
         ActivatingOk, ActivatingError, ActivatingTimeout, Activated,
         ContextReady, DataStep, resetVars, infoVars
<1>2. /\ failApn \in 0..AttemptLimit + 1 /\ failAct \in 0..AttemptLimit + 1
      /\ failApn = AttemptLimit + 1 \/ failAct = AttemptLimit + 1 => ~pending
  BY <1>1, ManagerAssumption DEF TypeInv, TypeOK, FailsOK
<1>3. est' \in States /\ ctx' \in ContextStates
  BY <1>1 DEF DataConn, LookupApn, VerifyApn, SetApn, ActivatePdp, AwaitCell,
         ActivatingOk, ActivatingError, ActivatingTimeout, Activated,
         ContextReady, States, ContextStates, TypeInv, TypeOK
<1>4. serving' \in BOOLEAN /\ hasCtx' \in BOOLEAN /\ pdp' \in BOOLEAN
  BY DEF DataConn, LookupApn, VerifyApn, SetApn, ActivatePdp, AwaitCell,
         ActivatingOk, ActivatingError, ActivatingTimeout, Activated,
         ContextReady, CellInfo, TypeInv, TypeOK
<1>5. \/ failApn' \in {failApn, 0} /\ failAct' \in {failAct, 0}
      \/ /\ failApn' = failApn + 1 /\ UNCHANGED failAct
         /\ failApn' > AttemptLimit => est' = "init"
      \/ /\ failAct' = failAct + 1 /\ UNCHANGED failApn
         /\ failAct' > AttemptLimit => est' = "init"
  BY DEF DataConn, LookupApn, VerifyApn, SetApn, ActivatePdp, AwaitCell,
         ActivatingOk, ActivatingError, ActivatingTimeout, Activated,
         ContextReady, failVars
<1>6. failApn' \in 0..AttemptLimit + 2 /\ failAct' \in 0..AttemptLimit + 2
  BY <1>2, <1>5, ManagerAssumption
<1>7. FailsOK(failApn)' /\ FailsOK(failAct)'
  BY <1>1, <1>2, <1>5, ManagerAssumption DEF FailsOK
<1> QED
  BY <1>1, <1>3, <1>4, <1>6, <1>7 DEF TypeInv, TypeOK

LEMMA CycleType ==
    ASSUME TypeInv, Cycle
    PROVE  TypeInv'
<1> USE DEF resetVars, infoVars, failVars, modemVars, networkVars, stateVars
<1>1. CASE CycleInit
  BY <1>1, ResetTypes DEF CycleInit, TypeInv, TypeOK
<1>2. Bumped(retry, CheckLimit) \in 0..CheckLimit + 1 /\ 0 \in 0..CheckLimit + 1
  <2>1. CheckLimit \in Nat /\ retry \in 0..CheckLimit + 1
    BY ManagerAssumption DEF TypeInv, TypeOK
  <2>2. Bumped(retry, CheckLimit) \in 0..CheckLimit + 1
    BY <2>1, BumpedType
  <2> QED
    BY <2>1, <2>2
<1>3. ASSUME NEW ok \in BOOLEAN,
             AtCheck(ok) \/ AtConfig(ok) \/ ModemInfo(ok) \/ SimInfo(ok)
      PROVE  TypeInv'
  <2>1. /\ est # "init" /\ retry' \in 0..CheckLimit + 1
        /\ est' \in States /\ cfgState' \in ConfigStates
        /\ net' \in NetworkStates
    BY <1>2, <1>3 DEF AtCheck, AtConfig, ModemInfo, SimInfo, TypeInv, TypeOK,
       States, ConfigStates, NetworkStates
  <2>2. imei' \in BOOLEAN /\ imsi' \in BOOLEAN
    BY <1>3 DEF AtCheck, AtConfig, ModemInfo, SimInfo, TypeInv, TypeOK
  <2>3. UNCHANGED <<ctx, resets, pending, late, throttled, sigFail, reg, serving,
                    failApn, failAct, hasCtx, modem, ready, powerdown, pdp,
                    good>>
    BY <1>3 DEF AtCheck, AtConfig, ModemInfo, SimInfo
  <2> QED
    BY <2>1, <2>2, <2>3 DEF TypeInv, TypeOK, FailsOK
<1>4. CASE SimError
  <2>1. CASE retry' > CheckLimit
    <3>1. ResetEffects(FALSE) /\ ResetStates /\ UNCHANGED <<throttled, good>>
          /\ retry' \in 0..CheckLimit + 1
      BY <1>2, <1>4, <2>1 DEF SimError
    <3> QED
      BY <3>1, ResetTypes
  <2>2. CASE ~(retry' > CheckLimit)
    BY <1>2, <1>4, <2>2 DEF SimError, TypeInv, TypeOK, FailsOK
  <2> QED
    BY <2>1, <2>2
<1>5. CASE NetStatus
  BY <1>5, NetType
<1>6. CASE DataConn
  BY <1>6, DataType
<1>7. CASE SessionsOk
  BY <1>7 DEF SessionsOk, TypeInv, TypeOK, FailsOK, States
<1>8. CASE SessionsFail
  <2>1. CASE retry' > CheckLimit
    <3>1. ResetEffects(FALSE) /\ ResetStates /\ UNCHANGED <<throttled, good>>
          /\ retry' \in 0..CheckLimit + 1
      BY <1>2, <1>8, <2>1 DEF SessionsFail
    <3> QED
      BY <3>1, ResetTypes
  <2>2. CASE ~(retry' > CheckLimit)
    BY <1>2, <1>8, <2>2 DEF SessionsFail, TypeInv, TypeOK, FailsOK, States
  <2> QED
    BY <2>1, <2>2
<1> QED
  BY <1>1, <1>3, <1>4, <1>5, <1>6, <1>7, <1>8 DEF Cycle

LEMMA OutsideType ==
    ASSUME TypeInv, Outside
    PROVE  TypeInv'
<1>1. UNCHANGED <<est, cfgState, net, ctx, retry, sigFail, serving, imei, imsi,
                  failApn, failAct, hasCtx, pending>>
  BY DEF Outside, HourPasses, ResetLate, ThrottleEnds, ModemSettles,
         RegistrationChanges, ContextLost, Improves, resetVars, infoVars,
         failVars, modemVars, networkVars, stateVars
<1>2. /\ resets' \in {resets, 0} /\ late' \in {late, TRUE}
      /\ throttled' \in {throttled, FALSE} /\ reg' \in {reg} \union Registrations
  BY DEF Outside, HourPasses, ResetLate, ThrottleEnds, ModemSettles,
         RegistrationChanges, ContextLost, Improves, resetVars, networkVars,
         Registrations
<1>3. /\ modem' \in ModemStates /\ ready' \in BOOLEAN
      /\ powerdown' \in BOOLEAN /\ pdp' \in BOOLEAN /\ good' \in BOOLEAN
  BY DEF Outside, HourPasses, ResetLate, ThrottleEnds, ModemSettles,
         RegistrationChanges, ContextLost, Improves, modemVars, ModemStates,
         TypeInv, TypeOK
<1>4. resets' \in 0..MaxResets
  BY <1>2, ManagerAssumption DEF TypeInv, TypeOK
<1> QED
  BY <1>1, <1>2, <1>3, <1>4 DEF TypeInv, TypeOK, FailsOK

\* Every counter of the task stops at its limit, the two of the data context
\* two above theirs, however resets and failures follow each other
\* (modem_manager.cpp, reset and the process...State functions).
THEOREM SpecTypeOK == Spec => []TypeOK
<1>1. Init => TypeInv
  <2>1. /\ 0 \in 0..CheckLimit + 1 /\ 0 \in 0..MaxResets
        /\ 0 \in 0..SignalLimit + 1 /\ 0 \in 0..AttemptLimit + 2
        /\ 0 # AttemptLimit + 1 /\ 0 # AttemptLimit + 2
    BY ManagerAssumption
  <2> QED
    BY <2>1 DEF Init, TypeInv, TypeOK, FailsOK, States, ConfigStates,
       NetworkStates, ContextStates, Registrations, ModemStates
<1>2. TypeInv /\ [Next]_mngrVars => TypeInv'
  <2> SUFFICES ASSUME TypeInv, [Next]_mngrVars
               PROVE  TypeInv'
    OBVIOUS
  <2>1. CASE Cycle
    BY <2>1, CycleType
  <2>2. CASE Outside
    BY <2>2, OutsideType
  <2>3. CASE UNCHANGED mngrVars
    BY <2>3 DEF TypeInv, TypeOK, FailsOK, mngrVars
  <2> QED
    BY <2>1, <2>2, <2>3 DEF Next
<1>3. TypeInv => TypeOK
  BY DEF TypeInv
<1> QED
  BY <1>1, <1>2, <1>3, PTL DEF Spec
=============================================================================
