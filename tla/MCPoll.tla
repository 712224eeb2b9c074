------------------------------- MODULE MCPoll -------------------------------
(* Small instances of Poll.                                                *)
EXTENDS Poll

CONSTANTS u1, c1, p1, p2

DailyOnly == {Daily}

=============================================================================
