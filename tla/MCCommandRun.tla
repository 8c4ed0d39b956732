---------------------------- MODULE MCCommandRun ----------------------------
(* CommandRun with integers of four bits and a few values of each kind. *)
EXTENDS CommandRun

MCBackendValues == {"", "tmux-popup", "zellij", "bogus"}
MCPathValues == {"", "/opt/pinentry"}
MCValues ==
    {Empty, [kind |-> "position", n |-> 0], [kind |-> "malformed", n |-> 0]}
        \cup [kind : Unit, n : {0, 3, MaxInt - 1, MaxInt, MaxInt + 1}]
=============================================================================
