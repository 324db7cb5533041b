----------------------------- MODULE MCGateway -----------------------------
(***************************************************************************)
(* Commands for Gateway: what a remote sends, and what a client may ask    *)
(* for, two of them the same but for the first byte; and what another      *)
(* controller puts on the power line.                                      *)
(***************************************************************************)
EXTENDS Gateway

Cmd(o, k, h, u) == [own |-> o, kind |-> k, house |-> h, unit |-> u]

MCCmds == {Cmd(FALSE, "on", 1, 1), Cmd(FALSE, "off", 1, 2),
           Cmd(TRUE, "on", 1, 1), Cmd(FALSE, "dim", 1, 1),
           Cmd(FALSE, "other", 1, 1)}

MCAsked == {Addr(1, 1), Addr(1, 2), Addr(2, 1), Func(1, 2), Dim(1)}

MCHeard == {Addr(1, 2), Addr(2, 1), Func(1, 0), Ext(1, 1, 255)}

\* The other house is there to show that its frames do not matter.
FewElsewhere == Len(SelectSeq(seen, LAMBDA o : o.house = 2)) <= 1

\* Once the line and the tables have parted, nothing reads what still waits.
LineMatters == apart \cap {"lost", "overtaken"} # {} => unsent = <<>>

=============================================================================
