---------------------------- MODULE MCPopupLaunch ----------------------------
(* Instances of PopupLaunch small enough for TLC. *)
EXTENDS PopupLaunch

\* "run-in-popup exec": both outputs into endpoints, stdin relayed.
ExecBridge(m) ==
    [ stdin |-> TRUE, endpoints |-> Outs, pipes |-> {}, env |-> FALSE,
      mechanism |-> m, by |-> "WaitStreams" ]

\* The JSON-IPC exchange: the answer on a pipe, requests on stdin.
JsonIpc(m) ==
    [ stdin |-> TRUE, endpoints |-> {}, pipes |-> {"stdout"}, env |-> FALSE,
      mechanism |-> m, by |-> "release" ]

\* The pinentry handshake's popup under tmux: an environment and no stream.
Handshake(m) ==
    [ stdin |-> FALSE, endpoints |-> {}, pipes |-> {}, env |-> TRUE,
      mechanism |-> m, by |-> "release" ]

\* One endpoint and one pipe, the endpoint overriding a pipe request of its own.
Mixed(m) ==
    [ stdin |-> FALSE, endpoints |-> {"stdout"}, pipes |-> Outs, env |-> FALSE,
      mechanism |-> m, by |-> "Wait" ]

\* A program that wants nothing but its popup.
Bare(m) ==
    [ stdin |-> FALSE, endpoints |-> {}, pipes |-> {}, env |-> FALSE,
      mechanism |-> m, by |-> "WaitStreams" ]

AllLaunches ==
    UNION {{ExecBridge(m), JsonIpc(m), Handshake(m), Mixed(m), Bare(m)} :
             m \in {"popup", "pane"}}

\* An endpoint with the stdin relay beside it, waited on as exec waits.
OneEndpoint(m) ==
    [ stdin |-> TRUE, endpoints |-> {"stdout"}, pipes |-> {}, env |-> FALSE,
      mechanism |-> m, by |-> "WaitStreams" ]

ExecLaunches == {ExecBridge("popup")}

LivenessLaunches == {OneEndpoint("popup"), JsonIpc("pane"), Mixed("popup")}
==============================================================================
