----------------------------- MODULE MCProcess -----------------------------
(* Run: all three modes, two clients.  Service: three connections for the      *)
(* listener's two tokens and two clients for the relay's one slot, so that one *)
(* can be rejected while the others are served.  Settings: the same fields set *)
(* in several layers, with values that validation accepts and refuses; and one *)
(* layer with many settings, against secrets and files that are good or bad.   *)
EXTENDS Process, TLC

Read(s) == [status |-> "read", sets |-> s]
Parses(s) == [status |-> "parses", sets |-> s]
Good == [admin |-> "long", client |-> "long", upstream |-> "long", roots |-> "good", certificate |-> "good", probe |-> "answers"]
LayerValues ==
    {Nothing, [mysqlListen |-> "network:a"], [mysqlListen |-> "loopback:b", queued |-> -1],
     [adminListen |-> "network:a", mode |-> "pooled"], [level |-> "debug", queued |-> 0, timeout |-> 0],
     [insecure |-> "true", upstream |-> 5, level |-> "loud"], [mysqlListen |-> "hostless", enabled |-> "true"]}
Layers ==
    [file    : {Read(s) : s \in LayerValues} \cup {[status |-> "malformed", sets |-> Nothing]},
     env     : {Parses(s) : s \in LayerValues} \cup {[status |-> "unparsable", sets |-> Nothing]},
     flags   : {Nothing, [mysqlListen |-> "loopback:a"], [adminListen |-> "loopback:b", level |-> "info"],
                [dataDir |-> "empty"]},
     managed : {Read(s) : s \in LayerValues} \cup {[status |-> x, sets |-> Nothing] : x \in {"missing", "malformed"}}]

WideFiles ==
    {[mode |-> m, clientTLS |-> t, tlsFiles |-> f, mysqlListen |-> a, insecure |-> i, enabled |-> "true",
      upstreamTLS |-> u, caFile |-> "set", host |-> h, allowEmpty |-> e, adminTokenEnv |-> k] :
        m \in {"pooled", "transparent"}, t \in {"disabled", "required", "Required", "odd"}, f \in {"set", "unset"},
        a \in {"loopback:a", "network:a"}, i \in {"true", "false"}, u \in {"preferred", "verify-full"},
        h \in {"ip", "name"}, e \in {"true", "false"}, k \in {"set", "unset"}}
      \cup {[timeout |-> d, shutdown |-> s, queued |-> q, enabled |-> e, port |-> p] :
              d \in {-1, 0, 1, 6000, 6001}, s \in {0, 1, 6001}, q \in {-1, 0}, e \in {"true", "false"}, p \in {0, 65535}}
Answers == {"long", "short", "empty", "unset", "unreadable"}
Surroundings ==
    {[Good EXCEPT !.upstream = u, !.client = c] : u, c \in Answers} \cup {[Good EXCEPT !.admin = a] : a \in Answers}
      \cup {[Good EXCEPT !.roots = "bad"], [Good EXCEPT !.certificate = "bad"], [Good EXCEPT !.probe = "fails"]}

MCSettings ==
    {[layers |-> l, around |-> Good] : l \in Layers}
      \cup {[layers |-> [NoSettings.layers EXCEPT !.file = Read(s)], around |-> a] : s \in WideFiles, a \in Surroundings}
=============================================================================
