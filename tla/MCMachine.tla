------------------------------- MODULE MCMachine -------------------------------
(* One machine, and what happens to it: each agenda is about one part.     *)
EXTENDS Machine

CONSTANTS mine, later, theirs, g, q, r

ClaimedOf == [a \in Acts |-> IF a = theirs THEN HumanConfirmed ELSE AgentExtracted]

Nothing ==
    [held |-> {}, named |-> {}, says |-> {}, elsewhere |-> {}, shared |-> {}, gates |-> {},
     model |-> FALSE, tools |-> {}, file |-> None, edits |-> 0, requests |-> {},
     loaded |-> {"canonical"}, plist |-> "generated", acts |-> 0, commands |-> {}, app |-> FALSE,
     embeds |-> [d \in Daemons \cup {"tool"} |-> "new"]]

Id(text, space) == [text |-> text, space |-> space, legacy |-> FALSE]
Legacy(text) == [text |-> text, space |-> "from", legacy |-> TRUE]

Of(a) == [act |-> a, tier |-> Claimed[a]]
Here(a) == Att!Unstamped(Of(a))
There(a) == Att!Stamped(Of(a), "peer", 1)

(* A row of this node and a peer's, re-keyed, while more is said of it.    *)
Rekeying ==
    [Nothing EXCEPT
        !.held = {<<Id(1, "from"), Here(mine)>>, <<Id(1, "from"), There(theirs)>>},
        !.named = {mine},
        !.says = {<<Id(2, "from"), later>>},
        !.elsewhere = {<<Id(1, "to"), There(mine)>>},
        !.shared = {"from", "to"},
        !.gates = {<<Id(1, "from"), "claim_demotion", Unverified>>},
        !.tools = {"rekey"}]

(* A row of an old formula, migrated, and re-keyed before or after.         *)
Migrating ==
    [Nothing EXCEPT
        !.held = {<<Legacy(1), Here(mine)>>, <<Legacy(1), There(theirs)>>},
        !.named = {mine},
        !.shared = {"from"},
        !.gates = {<<Legacy(1), "claim_demotion", Unverified>>,
                   <<Id(1, "from"), "claim_promotion", HumanConfirmed>>},
        !.tools = {"migrate", "rekey"}]

(* What was written before the model, and renamed while it is embedded.    *)
Embedding ==
    [Nothing EXCEPT
        !.held = {<<Id(1, "from"), Here(mine)>>, <<Id(1, "to"), Here(mine)>>},
        !.says = {<<Id(2, "from"), later>>},
        !.elsewhere = {<<Id(2, "to"), There(theirs)>>},
        !.gates = {<<Id(1, "from"), "claim_promotion", HostSigned>>},
        !.model = TRUE]

(* A hub with a certificate, or a node that becomes one. *)
Listening == [Nothing EXCEPT !.file = [tls |-> 1, allow |-> Nobody], !.edits = 3]
Starting == [Nothing EXCEPT !.edits = 2]

(* The same hub with a machine admitted. *)
Admitting == [Nothing EXCEPT !.file = [tls |-> 1, allow |-> [Nobody EXCEPT ![g] = "all"]], !.edits = 2]

Bridging == [Nothing EXCEPT !.requests = {q, r}]

(* Homebrew's job, the app and a login job that takes over.                *)
TakingOver ==
    [Nothing EXCEPT !.loaded = {"brew"}, !.plist = "absent", !.acts = 2, !.app = TRUE,
                    !.commands = {"takeover", "install"}]

(* A job a person wrote, and the commands. *)
Commanding ==
    [Nothing EXCEPT !.plist = "hand", !.acts = 3,
                    !.commands = {"start", "stop", "restart", "takeover", "uninstall"}]

(* The app and the shell, with nothing installed. *)
Using ==
    [Nothing EXCEPT !.loaded = {}, !.plist = "absent", !.acts = 3, !.app = TRUE,
                    !.commands = {"stop", "restart"}]

(* A machine set up, while its person and the app start daemons too. *)
SettingUp == [Using EXCEPT !.acts = 2, !.commands = {"start", "setup"}]

(* A login job that runs another model than the shell and the app do, and   *)
(* a terminal that runs none.                                              *)
Reindexing ==
    [Nothing EXCEPT !.held = {<<Id(1, "from"), Here(mine)>>}, !.model = TRUE,
                    !.embeds["canonical"] = "old", !.embeds["terminal"] = None,
                    !.acts = 2, !.app = TRUE, !.commands = {"rebuild", "reset"}]

AllAgendas == {Rekeying, Migrating, Embedding, Listening, Starting, Admitting, Bridging, TakingOver, Commanding, Using,
               SettingUp, Reindexing}
===============================================================================
