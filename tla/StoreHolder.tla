---- MODULE StoreHolder ----
(* Who has a machine's store.  The file is locked by the process that opens *)
(* it for writing: the daemon, or a one-shot command, which finds it locked *)
(* while a daemon runs.  A process that ends gives the lock back, wherever  *)
(* it was cut short, and all it kept in memory goes with it.                *)
CONSTANTS
    Agendas,  \* of an instance: its first state, and what is done in it
    None      \* no value, whatever the field

VARIABLES
    agenda,   \* the one that this behaviour is of
    proc      \* who has the store: "serving" the daemon, "tool" a command,
              \* "down" nobody

(* RedbStore::open, which a second process is refused. *)
TakesStore(who) == proc = "down" /\ proc' = who

(* The process is gone: at its end, told to or killed. *)
LeavesStore(who) == proc = who /\ proc' = "down"

Serving == proc = "serving"
====
