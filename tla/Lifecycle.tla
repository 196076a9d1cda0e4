-------------------------------- MODULE Lifecycle ------------------------------
(***************************************************************************)
(* Who runs the daemon.  A login job, a Homebrew job, `supragnosis start`, *)
(* the desktop app and a terminal each start one, and the store admits     *)
(* one; a job that finds it held is started again for as long as it is     *)
(* loaded.  The commands look at the managers first and act afterwards,    *)
(* in steps between which other commands, the app and launchd go on.       *)
(* Setup and a rebuild of the index do what they do through those.         *)
(*                                                                         *)
(* This is the macOS reading.  A look is one step; a daemon that does not  *)
(* hold the store yet answers nobody, and one that holds it answers until  *)
(* it is told to stop.  A killed process and a terminated one both stop in *)
(* time.                                                                   *)
(***************************************************************************)
EXTENDS StoreHolder, Naturals, FiniteSets

Jobs == {"canonical", "brew"}
Forks == {"fork", "refork"}       \* of `supragnosis start`
Children == {"child", "rechild"}  \* of the app
Daemons == Jobs \cup Forks \cup Children \cup {"terminal"}

(* A person at a shell, the app's page, and the app's own launch. *)
Doers == {"person", "page", "launch"}

(* What a person types. *)
Commands ==
    {"start", "stop", "restart", "install", "takeover", "uninstall", "setup", "rebuild", "reset"}

ASSUME LifecycleAssumption ==
    /\ None \notin Daemons
    /\ \A a \in Agendas :
          a.loaded \subseteq Jobs /\ a.plist \in {"absent", "generated", "hand"} /\ a.commands \subseteq Commands

VARIABLES
    life,    \* where each daemon is
    loaded,  \* launchd's jobs
    plist,   \* the canonical job's file
    aside,   \* files moved aside
    pidfile, \* the fork the pidfile names, or None
    app,     \* the app: whether it runs, what it shows, and its child
    act,     \* what each doer is in the middle of
    acts     \* acts still to come

dvars == <<life, loaded, plist, aside, pidfile, app, act, acts>>

Dead(d) == life[d] \in {"off", "failed"}
Up == \E d \in Daemons : life[d] = "up"
Held == proc = "tool" \/ \E d \in Daemons : life[d] \in {"up", "stopping"}

NoAct == [asked |-> "nothing", does |-> "nothing", at |-> "out", plan |-> {}, saw |-> "absent",
          shell |-> TRUE, alone |-> FALSE]

DInit ==
    /\ life = [d \in Daemons |-> "off"] /\ loaded = agenda.loaded
    /\ plist = agenda.plist /\ aside = {} /\ pidfile = None
    /\ app = [open |-> FALSE, shows |-> "starting", child |-> None]
    /\ act = [d \in Doers |-> NoAct] /\ acts = agenda.acts

(* ------------------------------- daemons ------------------------------- *)

(* A loaded job is started whenever it does not run. *)
JobRuns(j) ==
    /\ j \in loaded /\ Dead(j) /\ life' = [life EXCEPT ![j] = "starting"]
    /\ UNCHANGED <<loaded, plist, aside, pidfile, app, act, acts>>

(* A daemon that opens the store serves; the step is the machine's. *)
DServe(d) ==
    /\ life[d] = "starting" /\ life' = [life EXCEPT ![d] = "up"]
    /\ UNCHANGED <<loaded, plist, aside, pidfile, app, act, acts>>

(* One that cannot have the store exits: it is held, or another model's. *)
DFails(d) ==
    /\ life[d] = "starting" /\ life' = [life EXCEPT ![d] = "failed"]
    /\ UNCHANGED <<loaded, plist, aside, pidfile, app, act, acts>>

Loses(d) == Held /\ DFails(d)

(* The daemon that serves ends: it was told to, or it crashes. *)
DStop(d) ==
    /\ life[d] \in {"up", "stopping"}
    /\ life' = [life EXCEPT ![d] = IF @ = "stopping" THEN "off" ELSE "failed"]
    /\ UNCHANGED <<loaded, plist, aside, pidfile, app, act, acts>>

(* The daemons once these were told to stop. *)
Told(ds) ==
    [d \in Daemons |-> IF d \notin ds THEN life[d]
                       ELSE CASE life[d] = "up" -> "stopping" [] life[d] = "starting" -> "off"
                              [] OTHER -> life[d]]

(* ------------------------------- commands ------------------------------ *)

Named == IF pidfile # None /\ ~Dead(pidfile) THEN pidfile ELSE None
Managers == loaded \cup ({Named} \ {None})

(* Which daemons nothing names. *)
Unnamed == {d \in Daemons \ Managers : ~Dead(d)}

To(d, at) == act' = [act EXCEPT ![d].at = at]

(* A doer takes something up; whoever is at something is not alone in it.  *)
Begins(d, does, at, plan) ==
    /\ act[d] = NoAct /\ acts > 0 /\ acts' = acts - 1
    /\ act' = [x \in Doers |->
           IF x = d THEN [asked |-> does, does |-> does, at |-> at, plan |-> plan, saw |-> "absent",
                          shell |-> d = "person", alone |-> \A y \in Doers : act[y] = NoAct]
           ELSE [act[x] EXCEPT !.alone = FALSE]]

(* A command ends; what the app asked for goes on in the app. *)
Done(d) == act' = [act EXCEPT ![d] = IF @.shell THEN NoAct ELSE [@ EXCEPT !.at = "settling"]]

Looks(d, does) == act[d].at = "looking" /\ act[d].does \in does

(* The commands that act clear a stale pidfile before they look. *)
ClearStale == pidfile' = Named

(* start: refused beside a live fork or a port that answers, and only that. *)
LooksToStart(d) ==
    /\ Looks(d, {"start"}) /\ ClearStale
    /\ IF Named # None \/ Up THEN Done(d) ELSE To(d, "forking")
    /\ UNCHANGED <<life, loaded, plist, aside, app, acts>>

(* It forks, unless a live fork has the pidfile locked by now.             *)
Forking(d) ==
    /\ act[d].at = "forking"
    /\ IF Named # None THEN Done(d) /\ UNCHANGED <<life, pidfile>>
       ELSE \E f \in Forks :
            /\ Dead(f) /\ life' = [life EXCEPT ![f] = "starting"] /\ pidfile' = f
            /\ act' = [act EXCEPT ![d].at = "awaiting", ![d].plan = {f}]
    /\ UNCHANGED <<loaded, plist, aside, app, acts>>

(* stop: the one manager, if there is one.  A rebuild, which stops what    *)
(* it found, goes on if it finds nothing any more.                         *)
LooksToStop(d) ==
    /\ Looks(d, {"stop"}) \/ act[d].at = "stopping"
    /\ ClearStale
    /\ CASE Cardinality(Managers) = 1 ->
              act' = [act EXCEPT ![d].at = "retiring", ![d].plan = Managers]
         [] Managers = {} /\ ~Held /\ act[d].does = "rebuild" -> To(d, "freeing")
         [] OTHER -> Done(d)
    /\ UNCHANGED <<life, loaded, plist, aside, app, acts>>

(* restart: the one manager; with none, the installed job, or a fork; and  *)
(* nothing in a conflict, or beside a holder that nothing names.           *)
LooksToRestart(d) ==
    /\ Looks(d, {"restart"}) /\ ClearStale
    /\ CASE Cardinality(Managers) = 1 ->
              act' = [act EXCEPT ![d].at = IF Managers \subseteq Jobs THEN "kicking" ELSE "retiring",
                                 ![d].plan = Managers]
         [] Managers = {} /\ ~Held ->
              IF plist # "absent"
              THEN act' = [act EXCEPT ![d].at = "loading", ![d].plan = {"canonical"}]
              ELSE act' = [act EXCEPT ![d].does = "start"]
         [] OTHER -> Done(d)
    /\ UNCHANGED <<life, loaded, plist, aside, app, acts>>

(* A job is restarted in place, if it is still loaded. *)
Kicks(d) ==
    /\ act[d].at = "kicking"
    /\ IF act[d].plan \subseteq loaded THEN life' = Told(act[d].plan) /\ To(d, "awaiting")
       ELSE UNCHANGED life /\ Done(d)
    /\ UNCHANGED <<loaded, plist, aside, pidfile, app, acts>>

(* install: refused beside a holder nothing names, and, unless it takes    *)
(* over, beside another manager or over a file a person wrote.             *)
LooksToInstall(d) ==
    LET others == Managers \ {"canonical"}
        refused == \/ Managers = {} /\ Held
                   \/ act[d].does = "install" /\ (others # {} \/ plist = "hand")
    IN  /\ Looks(d, {"install", "takeover"})
        /\ IF refused THEN Done(d)
           ELSE act' = [act EXCEPT ![d].at = "retiring", ![d].plan = Managers, ![d].saw = plist,
                                   ![d].alone = @ /\ \A y \in Unnamed : life[y] # "starting"]
        /\ UNCHANGED <<life, loaded, plist, aside, pidfile, app, acts>>

LooksToUninstall(d) ==
    /\ Looks(d, {"uninstall"})
    /\ act' = [act EXCEPT ![d].at = "retiring", ![d].plan = loaded \cap {"canonical"},
                          ![d].saw = plist]
    /\ UNCHANGED <<life, loaded, plist, aside, pidfile, app, acts>>

(* setup: where nothing runs it installs, and it takes over from a fork,   *)
(* unless a person wrote the file; what anyone chose it leaves alone.      *)
LooksToSetUp(d) ==
    /\ Looks(d, {"setup"})
    /\ IF plist # "hand" /\ ((Managers = {} /\ ~Held) \/ \E f \in Forks : Managers = {f})
       THEN act' = [act EXCEPT ![d].does = IF Managers = {} THEN "install" ELSE "takeover"]
       ELSE Done(d)
    /\ UNCHANGED <<life, loaded, plist, aside, pidfile, app, acts>>

(* embed rebuild: a fork or the installed job is stopped first; any other  *)
(* holder is left alone.                                                   *)
LooksToRebuild(d) ==
    /\ Looks(d, {"rebuild"}) /\ ClearStale
    /\ CASE Managers = {} /\ ~Held -> To(d, IF plist = "absent" THEN "clearing" ELSE "resetting")
         [] \/ \E f \in Forks : Managers = {f}
            \/ Managers = {"canonical"} /\ plist # "absent" -> To(d, "stopping")
         [] OTHER -> Done(d)
    /\ UNCHANGED <<life, loaded, plist, aside, app, acts>>

(* What was stopped lets go of the store, or the rebuild ends there. *)
Frees(d) ==
    /\ act[d].at = "freeing"
    /\ IF Held THEN Done(d) ELSE To(d, "resetting")
    /\ UNCHANGED <<life, loaded, plist, aside, pidfile, app, acts>>

(* embed reset, of a store nobody holds; a rebuild starts a daemon after   *)
(* it.  What it does to the store is the machine's.                        *)
DReset(d) ==
    /\ act[d].at \in {"resetting", "clearing"} \/ Looks(d, {"reset"})
    /\ IF ~Held /\ act[d].at = "resetting"
       THEN act' = [act EXCEPT ![d].does = "restart", ![d].at = "looking"]
       ELSE Done(d)
    /\ UNCHANGED <<life, loaded, plist, aside, pidfile, app, acts>>

(* A job is booted out, after the fork and the canonical one last.  `stop` *)
(* fails if it is not loaded any more; and Homebrew's is brew's to retire, *)
(* which may fail.                                                         *)
RetiresJob(d, j) ==
    /\ act[d].at = "retiring" /\ j \in act[d].plan /\ act[d].plan \subseteq Jobs
    /\ j = "canonical" => act[d].plan = {j}
    /\ \/ /\ act[d].does \in {"stop", "rebuild"} => j \in loaded
          /\ act' = [act EXCEPT ![d].plan = @ \ {j}]
          /\ loaded' = loaded \ {j} /\ life' = IF j \in loaded THEN Told({j}) ELSE life
       \/ /\ IF act[d].does \in {"stop", "rebuild"} THEN j \notin loaded ELSE j = "brew"
          /\ Done(d) /\ UNCHANGED <<life, loaded>>
    /\ UNCHANGED <<plist, aside, pidfile, app, acts>>

(* A fork is told to stop, and waited for ... *)
RetiresFork(d, f) ==
    /\ act[d].at = "retiring" /\ f \in act[d].plan /\ To(d, "waiting")
    /\ life' = Told({f})
    /\ UNCHANGED <<loaded, plist, aside, pidfile, app, acts>>

(* ... and the pidfile, whatever it names by then, is removed. *)
Waits(d, f) ==
    /\ act[d].at = "waiting" /\ f \in act[d].plan
    /\ IF Dead(f)
       THEN pidfile' = None /\ act' = [act EXCEPT ![d].at = "retiring", ![d].plan = @ \ {f}]
       ELSE UNCHANGED pidfile /\ Done(d)
    /\ UNCHANGED <<life, loaded, plist, aside, app, acts>>

(* All are retired: a restart starts a fork, an install waits. *)
Retired(d) ==
    /\ act[d].at = "retiring" /\ act[d].plan = {}
    /\ CASE act[d].does = "stop" -> Done(d)
         [] act[d].does = "rebuild" -> To(d, "freeing")
         [] act[d].does = "restart" -> act' = [act EXCEPT ![d].does = "start", ![d].at = "looking"]
         [] OTHER -> To(d, "releasing")
    /\ UNCHANGED <<life, loaded, plist, aside, pidfile, app, acts>>

(* A slip: what still holds the store is not waited for. *)
ReleasesAnyway(d) ==
    /\ act[d].at = "releasing" /\ To(d, "writing")
    /\ UNCHANGED <<life, loaded, plist, aside, pidfile, app, acts>>

(* An install goes on once nothing answers or holds the store, and gives   *)
(* up otherwise; an uninstall goes on after the wait.                      *)
Releases(d) ==
    /\ act[d].at = "releasing"
    /\ IF Held /\ act[d].does # "uninstall" THEN Done(d) ELSE To(d, "writing")
    /\ UNCHANGED <<life, loaded, plist, aside, pidfile, app, acts>>

(* The file, by what it was at the look: a person's is moved aside, ours   *)
(* is rewritten or removed.                                                *)
Writes(d) ==
    LET installs == act[d].does # "uninstall"
        gone == plist = "absent" /\ act[d].saw # "absent" /\ ~(installs /\ act[d].saw = "generated")
    IN  /\ act[d].at = "writing"
        /\ aside' = IF act[d].saw = "hand" THEN aside \cup ({plist} \ {"absent"}) ELSE aside
        /\ plist' = CASE gone -> plist [] installs -> "generated"
                      [] act[d].saw = "absent" -> plist [] OTHER -> "absent"
        /\ IF installs /\ ~gone
           THEN act' = [act EXCEPT ![d].at = "loading", ![d].plan = {"canonical"}]
           ELSE Done(d)
        /\ UNCHANGED <<life, loaded, pidfile, app, acts>>

(* The job is loaded, which starts it, if there is a file and none is. *)
Loads(d) ==
    /\ act[d].at = "loading"
    /\ IF plist = "absent" \/ "canonical" \in loaded
       THEN Done(d) /\ UNCHANGED <<life, loaded>>
       ELSE /\ loaded' = loaded \cup {"canonical"} /\ To(d, "awaiting")
            /\ life' = IF Dead("canonical") THEN [life EXCEPT !["canonical"] = "starting"] ELSE life
    /\ UNCHANGED <<plist, aside, pidfile, app, acts>>

(* It answers, fails, or is slow: the command says so and ends. *)
Awaits(d) ==
    /\ act[d].at = "awaiting" /\ Done(d)
    /\ UNCHANGED <<life, loaded, plist, aside, pidfile, app, acts>>

Command(d) ==
    \/ LooksToStart(d) \/ Forking(d) \/ LooksToStop(d) \/ LooksToRestart(d) \/ Kicks(d)
    \/ LooksToInstall(d) \/ LooksToUninstall(d) \/ LooksToSetUp(d) \/ LooksToRebuild(d)
    \/ Frees(d) \/ Retired(d) \/ Releases(d) \/ Writes(d)
    \/ Loads(d) \/ Awaits(d)
    \/ \E j \in Jobs : RetiresJob(d, j)
    \/ \E f \in Forks : RetiresFork(d, f) \/ Waits(d, f)

(* --------------------------------- the app ----------------------------- *)

(* Attach or spawn: a socket that answers is attached to; else a child of  *)
(* the app's own is started, and watched.                                  *)
BringsUp(d) ==
    /\ act[d].at = "bringing"
    /\ \/ /\ Up /\ act' = [act EXCEPT ![d] = NoAct]
          /\ app' = [app EXCEPT !.shows = "external", !.child = None] /\ UNCHANGED life
       \/ /\ ~Up /\ UNCHANGED app
          /\ \E c \in Children :
                /\ Dead(c) /\ app.child # c /\ life' = [life EXCEPT ![c] = "starting"]
                /\ act' = [act EXCEPT ![d].at = "watching", ![d].plan = {c}]
    /\ UNCHANGED <<loaded, plist, aside, pidfile, acts>>

(* A child that exited is a failed start; one that runs is ours, once a    *)
(* socket answers - whoever's - or the wait is over.                       *)
Watches(d) ==
    /\ act[d].at = "watching" /\ act' = [act EXCEPT ![d] = NoAct]
    /\ app' = IF \E c \in act[d].plan : Dead(c)
              THEN [app EXCEPT !.shows = "failed", !.child = None]
              ELSE [app EXCEPT !.shows = "spawned", !.child = CHOOSE c \in act[d].plan : TRUE]
    /\ UNCHANGED <<life, loaded, plist, aside, pidfile, acts>>

Launch ==
    /\ ~app.open /\ act["page"] = NoAct /\ Begins("launch", "launch", "bringing", {})
    /\ app' = [open |-> TRUE, shows |-> "starting", child |-> None]
    /\ UNCHANGED <<life, loaded, plist, aside, pidfile>>

(* Whatever is shown is replaced while an act of the page runs. *)
Pressed(does, at, plan) ==
    /\ app.open /\ Begins("page", does, at, plan)
    /\ app' = [app EXCEPT !.shows = "starting", !.child = None]
    /\ UNCHANGED <<loaded, plist, aside, pidfile>>

(* Restart: our child is stopped and brought up again; a daemon attached   *)
(* to, or a failed one that something manages, is the command's.           *)
RestartPressed ==
    CASE app.shows = "spawned" ->
           Pressed("restart", "reaping", {app.child}) /\ life' = Told({app.child})
      [] app.shows = "external" \/ (app.shows = "failed" /\ Managers # {}) ->
           Pressed("restart", "looking", {}) /\ UNCHANGED life
      [] OTHER -> Pressed("restart", "bringing", {}) /\ UNCHANGED life

(* Start at Login, on - our child goes first - and off. *)
LoginPressed ==
    CASE plist # "absent" -> Pressed("uninstall", "looking", {}) /\ UNCHANGED life
      [] plist = "absent" /\ app.shows = "spawned" ->
           Pressed("takeover", "reaping", {app.child}) /\ life' = Told({app.child})
      [] OTHER -> Pressed("takeover", "looking", {}) /\ UNCHANGED life

(* Rebuild Index: our child, which the command would not stop, goes first. *)
RebuildPressed ==
    IF app.shows = "spawned"
    THEN Pressed("rebuild", "reaping", {app.child}) /\ life' = Told({app.child})
    ELSE Pressed("rebuild", "looking", {}) /\ UNCHANGED life

Reaps(d) ==
    /\ act[d].at = "reaping" /\ \A c \in act[d].plan : Dead(c)
    /\ To(d, IF act[d].does = "restart" THEN "bringing" ELSE "looking")
    /\ UNCHANGED <<life, loaded, plist, aside, pidfile, app, acts>>

(* After a command the app waits for the socket and brings up; but after a *)
(* restart that does not answer it spawns none beside what it restarted.   *)
Settles(d) ==
    /\ act[d].at = "settling"
    /\ \/ (act[d].asked = "restart" => Up) /\ To(d, "bringing") /\ UNCHANGED app
       \/ /\ act[d].asked = "restart" /\ ~Up
          /\ act' = [act EXCEPT ![d] = NoAct]
          /\ app' = [app EXCEPT !.shows = "failed", !.child = None]
    /\ UNCHANGED <<life, loaded, plist, aside, pidfile, acts>>

(* A slip: only a daemon that a manager runs is attached to again.         *)
HealsManaged ==
    /\ app.open /\ app.shows = "failed" /\ Up /\ Managers # {}
    /\ app' = [app EXCEPT !.shows = "external"]
    /\ UNCHANGED <<life, loaded, plist, aside, pidfile, act, acts>>

(* Whenever the state is read: a failed daemon that answers is attached    *)
(* to, ...                                                                 *)
Heals ==
    /\ app.open /\ app.shows = "failed" /\ Up /\ app' = [app EXCEPT !.shows = "external"]
    /\ UNCHANGED <<life, loaded, plist, aside, pidfile, act, acts>>

(* ... and a child that exited since is a failed start. *)
SettlesExited ==
    /\ app.open /\ app.shows = "spawned" /\ Dead(app.child)
    /\ app' = [app EXCEPT !.shows = "failed", !.child = None]
    /\ UNCHANGED <<life, loaded, plist, aside, pidfile, act, acts>>

(* Quit: the child it shows is stopped.  A command the app runs goes on    *)
(* without it, and the rest of what it does ends.                          *)
Quit ==
    /\ app.open /\ acts > 0 /\ acts' = acts - 1
    /\ app' = [open |-> FALSE, shows |-> "starting", child |-> None]
    /\ life' = IF app.shows = "spawned" THEN Told({app.child}) ELSE life
    /\ act' = [d \in Doers |->
           IF d = "person" THEN [act[d] EXCEPT !.alone = FALSE]
           ELSE IF act[d].at \in {"out", "bringing", "watching", "reaping", "settling"} THEN NoAct
           ELSE [act[d] EXCEPT !.shell = TRUE, !.alone = FALSE]]
    /\ UNCHANGED <<loaded, plist, aside, pidfile>>

AppGoesOn(d) == BringsUp(d) \/ Watches(d) \/ Reaps(d) \/ Settles(d)

(* ---------------------------------- next ------------------------------- *)

(* A person types a command, or serves in a terminal. *)
Types(does) ==
    /\ Begins("person", does, "looking", {})
    /\ UNCHANGED <<life, loaded, plist, aside, pidfile, app>>

TerminalServes ==
    /\ Dead("terminal") /\ acts > 0 /\ acts' = acts - 1
    /\ life' = [life EXCEPT !["terminal"] = "starting"]
    /\ act' = [d \in Doers |-> [act[d] EXCEPT !.alone = FALSE]]
    /\ UNCHANGED <<loaded, plist, aside, pidfile, app>>

DNext ==
    \/ \E j \in Jobs : JobRuns(j)
    \/ \E d \in Daemons : Loses(d)
    \/ \E d \in Doers : Command(d) \/ AppGoesOn(d)
    \/ \E does \in agenda.commands : Types(does)
    \/ agenda.app /\ (Launch \/ RestartPressed \/ LoginPressed \/ Quit)
    \/ agenda.app /\ "rebuild" \in agenda.commands /\ RebuildPressed
    \/ TerminalServes \/ Heals \/ SettlesExited

(* Commands end, a daemon that cannot have the store exits, and the app    *)
(* reads its state every minute.                                           *)
DFairness ==
    /\ \A d \in Doers : WF_dvars(Command(d) \/ AppGoesOn(d))
    /\ \A d \in Daemons : WF_dvars(Loses(d))
    /\ WF_dvars(Heals) /\ WF_dvars(SettlesExited)

(* ------------------------------ properties ----------------------------- *)

(* An install nobody interferes with ends with one owner: when it loads    *)
(* the job, no other manager is left to fight it for the store, and no     *)
(* other daemon, of the app's or of a terminal's, holds it - the job would *)
(* fail on it, and be started again, for ever.  A daemon that nothing      *)
(* names and that has not opened the store yet is seen by no look.         *)
OneOwner ==
    \A d \in Doers :
        act[d].does \in {"install", "takeover"} /\ act[d].at = "awaiting" /\ act[d].alone =>
            loaded = {"canonical"} /\ \A x \in Daemons \ {"canonical"} : Dead(x)

(* While a daemon goes on answering, the app comes to show that it runs:   *)
(* not that it could not start, nor a child of its own that lost to it.    *)
Shown ==
    (app.open /\ Up) ~>
        \/ ~app.open \/ ~Up
        \/ app.shows = "external"
        \/ app.shows = "spawned" /\ life[app.child] = "up"
===============================================================================
