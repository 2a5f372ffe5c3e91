----------------------------- MODULE Companion -----------------------------
(***************************************************************************)
(* The companion computer without a competition: the host of a configured  *)
(* run, the missions flown without a host, and the landing on a marker     *)
(* with its vision threads.  A process is one of the first two.  The       *)
(* landing is an operation of the configured run: ConfiguredRun has it as  *)
(* a tool that starts, is evaluated and ends, and no other tool runs       *)
(* meanwhile, so its inner steps, which see nothing of the rest, are taken *)
(* by themselves.  One unit runs at a time and the others stay where they  *)
(* began.                                                                  *)
(***************************************************************************)
EXTENDS ConfiguredRun, PrecisionLanding, DirectMission

VARIABLE unit   \* configured, landing, direct

companionVars == <<unit, runVars, precisionVars, directVars>>

\* The plans that are flown: steps that always run, and one for an eligible payload only.
MCPlans ==
    LET always(tool) == [tool |-> tool, when |-> "always"]
    IN {<<always("takeoff"), always("land")>>,
        <<always("check"), [tool |-> "release", when |-> "eligible"]>>}

CompanionInit ==
    /\ unit \in {"configured", "landing", "direct"}
    /\ ConfiguredInit /\ LandingInit /\ DirectInit
    /\ unit # "configured" => plan[1].tool = "check"
    /\ unit # "direct" => flight = "descent"

OnlyConfigured ==
    unit = "configured" /\ ConfiguredNext /\ UNCHANGED <<unit, precisionVars, directVars>>
OnlyLanding == unit = "landing" /\ PrecisionNext /\ UNCHANGED <<unit, runVars, directVars>>
OnlyDirect == unit = "direct" /\ DirectNext /\ UNCHANGED <<unit, runVars, precisionVars>>

CompanionNext == OnlyConfigured \/ OnlyLanding \/ OnlyDirect
CompanionSpec == CompanionInit /\ [][CompanionNext]_companionVars

-----------------------------------------------------------------------------
(* Properties.                                                              *)

\* The state is well-formed and what the companion commands is safe: one operation and one
\* open command at a time, a mission that is finished was flown and landed, no descent
\* without the marker in sight, and no override that outlives its mission.
CommandsAreSafe ==
    /\ RunStateOK /\ LandingTypeOK /\ DirectTypeOK
    /\ OneOperation /\ FinishIsEarned /\ NoBlindDescent
    /\ OneOrder /\ FlownIsFlown /\ OverridesEnd

\* The end of a run is the end: no command or success after the failure is on record,
\* nothing at all after the quiescence marker.
EndIsFinal == [][ConfiguredIsFinal /\ DirectIsFinal]_companionVars
=============================================================================
