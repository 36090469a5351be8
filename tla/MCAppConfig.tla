----------------------------- MODULE MCAppConfig -----------------------------
(***************************************************************************)
(* Instances of AppConfig for TLC.                                         *)
(***************************************************************************)
EXTENDS AppConfig, TLC

CONSTANTS c1, c2, s1, s2, v1

\* Two scenarios.  A hosted build whose vault sends, beside one send of the
\* single-sig wallet, all to c1: workers and handlers race for the file.  And
\* a device with two sends to two recipients, whose change index is unused.
ScenarioInit == Init /\ hosted = vaultSends

HostedStep ==
  /\ send'[s2] = Idle
  /\ file'.bip47[c2] = 0 /\ send'[s1].to # c2 /\ (ui' = None \/ ui'.op # c2)

ScenarioSpec ==
  ScenarioInit /\ [][Next /\ (hosted => HostedStep)]_vars

\* A hosted build without a vault.
HostedInit == Init /\ hosted /\ ~vaultSends

HostedSpec == HostedInit /\ [][Next]_vars
===============================================================================
