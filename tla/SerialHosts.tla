----------------------------- MODULE SerialHosts -----------------------------
(***************************************************************************)
(* The two hosts of a serial port: the application's page (SerialPort) and *)
(* one run of the command line (CommandLine). The driver above is the same *)
(* in both; opening, closing and what happens in between is not.           *)
(***************************************************************************)
EXTENDS SerialPort, CommandLine

VARIABLE host \* which of the two is running

Init == host \in {"page", "terminal"} /\ SerialInit /\ CommandInit

Next == \/ host = "page" /\ SerialNext /\ UNCHANGED <<host, commandVars>>
        \/ host = "terminal" /\ CommandNext /\ UNCHANGED <<host, serialVars>>

Spec == Init /\ [][Next]_<<host, serialVars, commandVars>>

\* A host that is done with the adapter leaves the port closed and its streams free, whichever step
\* failed or was cut short and however many connects and disconnects overlapped, and no rate a connect
\* tries spoils the next.
PortReleased == BrowserReleases /\ HearsEveryRate /\ (at = "ended" => nodePort = "none")
=============================================================================
