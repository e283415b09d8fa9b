-------------------------------- MODULE Outputs --------------------------------
(***************************************************************************)
(* The outputs that read the router's slots: a console driver, which polls *)
(* its slot in the loop that also answers the console (ConsolePoll), or    *)
(* the BLE output, which polls it and sends when the link has room         *)
(* (BleOutput).  A build has one of them; the other stays as it began.     *)
(***************************************************************************)
EXTENDS BleOutput

CONSTANTS Button, Consoles, Parallel, MaxPads, MaxPublish

VARIABLES output, version, value, taken, out, handed, console, players, core0, pc,
          new, report, hotkey

Console == INSTANCE ConsolePoll

ASSUME OutputsAssumption == Console!ConsoleAssumption

consoleVars == <<version, value, taken, out, handed, console, players, core0, pc,
                 new, report, hotkey>>
outputsVars == <<output, bleVars, consoleVars>>

Unused(x, S) == x = CHOOSE e \in S : TRUE

Init == /\ output \in {"console", "ble"}
        /\ Console!Init
        /\ BleInit
        /\ output = "ble" => Unused(console, Consoles)
        /\ output = "console" =>
             Unused(build, {"direct"} \X DirectModes \cup {"threaded"} \X ThreadedModes
                             \cup {"parallel"} \X ParallelModes)

OfConsole(A) == output = "console" /\ A /\ UNCHANGED <<output, bleVars>>
OfBle(A) == output = "ble" /\ A /\ UNCHANGED <<output, consoleVars>>

Next == OfConsole(Console!Next) \/ OfBle(BleNext)

(* The fairness of either; see there. *)
Spec == /\ Init /\ [][Next]_outputsVars
        /\ WF_outputsVars(OfConsole(Console!Driver))
        /\ WF_outputsVars(OfConsole(Console!Unseat \/ Console!Reset))
        /\ WF_outputsVars(OfBle(Task)) /\ WF_outputsVars(OfBle(Handler))
        /\ WF_outputsVars(OfBle(Tick))
        /\ SF_outputsVars(OfBle(Marshal)) /\ SF_outputsVars(OfBle(Serve))

-----------------------------------------------------------------------------
(* A console driver shows every frame in the end, and a port that was left *)
(* is released (see ConsolePoll).                                          *)
ConsoleFollows == /\ [](output = "console" => Console!TypeOK)
                  /\ []<>(output = "console" => Console!Followed)
                  /\ []<>(output = "console" => Console!EmptyPortCleared)
===============================================================================
