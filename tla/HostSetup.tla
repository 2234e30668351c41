------------------------------- MODULE HostSetup -------------------------------
(***************************************************************************)
(* The commands that set a host up to record and to recall, and undo it:   *)
(* setup-claude-code writes the recorder's configuration, which holds the  *)
(* key, and then the hooks in Claude Code's settings; setup-codex and      *)
(* setup-mcp-client write a file of credentials that the printed launcher  *)
(* reads.  The commands are processes without a lock: they overlap, fail   *)
(* at any file operation and die between any two; other programs and the   *)
(* user edit the same settings.                                            *)
(***************************************************************************)
EXTENDS Naturals, FiniteSets

CONSTANTS
  Commands,  \* processes that run one command each
  Kind,      \* the command of each: "setup", "remove"
  Target,    \* the file each is about: the recorder's or a client's
  Recorder,  \* the recorder's configuration file
  Others     \* hooks, with their events, that other programs put there

ASSUME HostAssumption ==
  /\ Kind \in [Commands -> {"setup", "remove"}]
  /\ Commands \cap {"absent", "torn", "old"} = {}
  /\ \A h \in Others : h[2] # "vexic"

\* The hook events both edits are about.
Events == {"Stop", "SessionStart"}

VARIABLES
  file,      \* content of each file: "absent", "torn", or whose payload it is
  settings,  \* Claude Code's settings: valid JSON or not, and its hooks
  command,   \* each command's progress
  raced,     \* history: others' hooks added while a command held older settings
  added      \* history: hooks of others that were put in

hostVars == <<file, settings, command, raced, added>>

Files == {Target[c] : c \in Commands} \cup {Recorder}
Whole(content) == content \notin {"absent", "torn"}
Vexic == Events \X {"vexic"}

\* pc: how far the command is; read: the hooks it loaded; previous: the
\* configuration it read; alone: whether no other command about its file has
\* run beside it; found: history, what it began with.
Ready == [pc |-> "start", alive |-> TRUE, read |-> {}, previous |-> "absent",
          alone |-> TRUE, found |-> [file |-> "absent", hooks |-> {}]]

HostInit ==
  /\ \E hooked \in BOOLEAN :
       /\ file = [f \in Files |-> IF hooked /\ f = Recorder THEN "old" ELSE "absent"]
       /\ settings = [valid |-> TRUE, hooks |-> IF hooked THEN Vexic ELSE {}]
  /\ command = [c \in Commands |-> Ready]
  /\ raced = {} /\ added = {}

Ended == {"done", "failed", "unrestored"}
Running(c) == command[c].alive /\ command[c].pc \notin {"start"} \cup Ended
At(c, pc) == command[c].alive /\ command[c].pc = pc
Rivals(c) == {d \in Commands \ {c} : Target[d] = Target[c] /\ Running(d)}

\* What remains of a command that has ended.
Left(r) == [Ready EXCEPT !.pc = r.pc, !.alone = r.alone, !.alive = r.alive]

\* A command that begins meets those that run, and they meet it.
Goes(c, r) ==
  LET met == [r EXCEPT !.alone = @ /\ Rivals(c) = {}] IN
  command' = [d \in Commands |->
                IF d # c THEN [command[d] EXCEPT !.alone = @ /\ d \notin Rivals(c)]
                ELSE IF r.pc \in Ended THEN Left(met) ELSE met]
To(c, pc) == Goes(c, [command[c] EXCEPT !.pc = pc])

--------------------------------------------------------------------------------
(* Setting up *)

Begins(c, pc) ==
  Goes(c, [command[c] EXCEPT !.pc = pc,
             !.found = [file |-> file[Target[c]], hooks |-> settings.hooks \cap Vexic]])

\* The token is exchanged, or the credentials given are looked at, before
\* anything is read or written.  A failed exchange may have spent the token.
Exchange(c) ==
  /\ At(c, "start") /\ Kind[c] = "setup"
  /\ \/ Begins(c, IF Target[c] = Recorder THEN "load" ELSE "write")
     \/ Begins(c, "failed")
  /\ UNCHANGED <<file, settings, raced, added>>

\* _load_json: a file that is no JSON object ends the command, and so does a
\* command or launcher that cannot be made.
LoadSettings(c) ==
  /\ At(c, "load")
  /\ \/ /\ settings.valid
        /\ Goes(c, [command[c] EXCEPT !.read = settings.hooks,
                       !.pc = IF Kind[c] = "setup" THEN "previous" ELSE "edit"])
     \/ To(c, "failed")
  /\ UNCHANGED <<file, settings, raced, added>>

ReadPrevious(c) ==
  /\ At(c, "previous")
  /\ \/ Goes(c, [command[c] EXCEPT !.previous = file[Target[c]], !.pc = "write"])
     \/ To(c, "failed")
  /\ UNCHANGED <<file, settings, raced, added>>

\* What follows an exception of _write_secret_json or of the settings' edit.
AfterFailure(c) == IF Target[c] = Recorder THEN "restore" ELSE "failed"

\* (Mutation: the file is written in place.)
WriteInPlace(c) ==
  /\ At(c, "write")
  /\ \/ /\ file[Target[c]] # "torn" /\ file' = [file EXCEPT ![Target[c]] = "torn"]
        /\ UNCHANGED command
     \/ /\ file[Target[c]] = "torn" /\ file' = [file EXCEPT ![Target[c]] = c]
        /\ To(c, "verify")
  /\ UNCHANGED <<settings, raced, added>>

\* A temporary file is made, restricted, checked, and takes the file's place.
WriteSecret(c) ==
  /\ At(c, "write")
  /\ \/ file' = [file EXCEPT ![Target[c]] = c] /\ To(c, "verify")
     \/ UNCHANGED file /\ To(c, AfterFailure(c))
  /\ UNCHANGED <<settings, raced, added>>

\* The file in its place is restricted and checked again; one that cannot be
\* is removed.
Verify(c) ==
  /\ At(c, "verify")
  /\ To(c, IF Target[c] = Recorder THEN "edit" ELSE "done")
  /\ UNCHANGED <<file, settings, raced, added>>

Withdraw(c) ==
  /\ At(c, "verify")
  /\ file' \in {file, [file EXCEPT ![Target[c]] = "absent"]}
  /\ To(c, AfterFailure(c))
  /\ UNCHANGED <<settings, raced, added>>

\* (Mutation: a setup that fails leaves the new configuration.)
RestoreNothing(c) ==
  /\ At(c, "restore") /\ To(c, "failed")
  /\ UNCHANGED <<file, settings, raced, added>>

\* _restore_secret_config: the file is removed if there was none, else its
\* old bytes are written over it, in place.
Restore(c) ==
  /\ At(c, "restore")
  /\ \/ /\ command[c].previous = "absent"
        /\ file' = [file EXCEPT ![Target[c]] = "absent"] /\ To(c, "failed")
     \/ /\ command[c].previous # "absent"
        /\ file' = [file EXCEPT ![Target[c]] = "torn"] /\ To(c, "rewrite")
  /\ UNCHANGED <<settings, raced, added>>

Rewrite(c) ==
  /\ At(c, "rewrite")
  /\ file' = [file EXCEPT ![Target[c]] = command[c].previous]
  /\ To(c, "failed")
  /\ UNCHANGED <<settings, raced, added>>

RestoreFails(c) ==
  /\ At(c, "restore") \/ At(c, "rewrite")
  /\ To(c, "unrestored")
  /\ UNCHANGED <<file, settings, raced, added>>

\* (Mutation: a group that holds the hook goes with all its hooks.)
WithoutGroups(hooks) == {h \in hooks : <<h[1], "vexic">> \notin hooks}

\* _without_vexic_hook, for both events.
WithoutVexicHook(hooks) == hooks \ Vexic

Edited(c) ==
  WithoutVexicHook(command[c].read) \cup IF Kind[c] = "setup" THEN Vexic ELSE {}

\* The settings are replaced by what was read, with the hooks or without.
EditSettings(c) ==
  /\ At(c, "edit")
  /\ \/ /\ Edited(c) # command[c].read \/ Kind[c] = "setup"
        /\ settings' = [valid |-> TRUE, hooks |-> Edited(c)] /\ To(c, "done")
     \/ /\ Edited(c) = command[c].read /\ Kind[c] = "remove"
        /\ UNCHANGED settings /\ To(c, "done")
     \/ UNCHANGED settings /\ To(c, IF Kind[c] = "setup" THEN "restore" ELSE "failed")
  /\ UNCHANGED <<file, raced, added>>

--------------------------------------------------------------------------------
(* Removing, and the world around *)

\* uninstall-claude-code edits the settings and leaves the configuration;
\* uninstalling a client's credentials deletes their file.
Remove(c) ==
  /\ At(c, "start") /\ Kind[c] = "remove"
  /\ IF Target[c] = Recorder
       THEN Begins(c, "load") /\ UNCHANGED file
       ELSE \/ Begins(c, "done") /\ file' = [file EXCEPT ![Target[c]] = "absent"]
            \/ Begins(c, "failed") /\ UNCHANGED file
  /\ UNCHANGED <<settings, raced, added>>

Dies(c) ==
  /\ Running(c)
  /\ command' = [command EXCEPT ![c] = Left([@ EXCEPT !.alive = FALSE])]
  /\ UNCHANGED <<file, settings, raced, added>>

\* Another program adds its hook; a person leaves the file half edited, and
\* mends it.
HoldsSettings(c) == \E pc \in {"previous", "write", "verify", "edit"} : At(c, pc)
OtherAdds(h) ==
  /\ settings.valid /\ h \notin added
  /\ settings' = [settings EXCEPT !.hooks = @ \cup {h}]
  /\ added' = added \cup {h}
  /\ raced' = IF \E c \in Commands : Target[c] = Recorder /\ HoldsSettings(c)
                THEN raced \cup {h} ELSE raced
  /\ UNCHANGED <<file, command>>

OtherEdits ==
  /\ settings' = [settings EXCEPT !.valid = ~@]
  /\ UNCHANGED <<file, command, raced, added>>

CommandNext(c) ==
  \/ Exchange(c) \/ LoadSettings(c) \/ ReadPrevious(c) \/ WriteSecret(c)
  \/ Verify(c) \/ Withdraw(c) \/ Restore(c) \/ Rewrite(c) \/ RestoreFails(c)
  \/ EditSettings(c) \/ Remove(c) \/ Dies(c)

HostNext ==
  \/ \E c \in Commands : CommandNext(c)
  \/ \E h \in Others : OtherAdds(h)
  \/ OtherEdits

--------------------------------------------------------------------------------
(* Properties *)

\* Undoing a setup is not atomic: the configuration is missing or torn until
\* its bytes are back, and stays so if they cannot be written or the process
\* dies; and a setup that undoes itself undoes one that ran beside it.
Undoes(c) ==
  /\ Target[c] = Recorder /\ Kind[c] = "setup"
  /\ command[c].pc \in {"restore", "rewrite", "unrestored"} \/ ~command[c].alone

\* A hook that fires finds the configuration its command names, and finds it
\* whole, whatever setups, removals, failures and deaths came before, unless
\* a setup is undoing itself; and what a client's launcher reads is never
\* half a file.
HookHasConfig ==
  /\ settings.hooks \cap Vexic # {} =>
       Whole(file[Recorder]) \/ \E c \in Commands : Undoes(c)
  /\ \A f \in Files \ {Recorder} : file[f] # "torn"

\* What other programs put into the settings stays there, unless they put it
\* there while a command held an older copy.
OthersKept == added \ raced \subseteq settings.hooks

\* A setup of the recorder that no other command disturbed does all or
\* nothing: it reports success when configuration and hooks are its own, and
\* a failure it could undo leaves both as it found them.
Succeeded(c) == file'[Recorder] = c /\ Vexic \subseteq settings'.hooks
Untouched(c) ==
  /\ file'[Recorder] = command[c].found.file
  /\ settings'.hooks \cap Vexic = command[c].found.hooks
SetupAtomic ==
  [][\A c \in Commands :
       Kind[c] = "setup" /\ Target[c] = Recorder /\ Running(c) /\ command'[c].alone =>
         /\ command'[c].pc = "done" => Succeeded(c)
         /\ command'[c].pc = "failed" => Untouched(c)]_hostVars
================================================================================
