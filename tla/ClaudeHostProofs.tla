--------------------------- MODULE ClaudeHostProofs ---------------------------
(***************************************************************************)
(* What a host keeps for any number of commands, hooks of others and       *)
(* primes, whatever fails or dies and in whatever order.                   *)
(***************************************************************************)
EXTENDS ClaudeHost, TLAPS

-------------------------------------------------------------------------------
(* What a command holds, and what it means *)

Contents == {"absent", "torn", "old"} \cup Commands
Hooks == Vexic \cup Others

Places == {"start", "load", "previous", "write", "verify", "edit", "restore", "rewrite"}
            \cup Ended

CommandType ==
  [pc : Places, alive : BOOLEAN, read : SUBSET Hooks, previous : Contents,
   alone : BOOLEAN, found : [file : Contents, hooks : SUBSET Vexic]]

\* The places where only a setup, or only a command about the recorder, gets.
PlaceFits(c) ==
  /\ command[c].pc \in {"load", "previous", "edit", "restore", "rewrite", "unrestored"} =>
       Target[c] = Recorder
  /\ command[c].pc \in {"previous", "write", "verify", "restore", "rewrite", "unrestored"} =>
       Kind[c] = "setup"

HostTyped ==
  /\ file \in [Files -> Contents]
  /\ settings \in [valid : BOOLEAN, hooks : SUBSET Hooks]
  /\ command \in [Commands -> CommandType]
  /\ added \subseteq Others
  /\ \A c \in Commands : PlaceFits(c)

\* Two commands that run about one file have met.
Met ==
  \A c, d \in Commands :
    c # d /\ Running(c) /\ Running(d) /\ Target[c] = Target[d] => ~command[c].alone

\* A setup of the recorder whose undoing is over for good and left damage, or
\* that was not alone.
Wrecked(c) ==
  /\ Target[c] = Recorder /\ Kind[c] = "setup"
  /\ \/ command[c].pc = "unrestored"
     \/ command[c].pc \in {"restore", "rewrite"} /\ ~command[c].alive
     \/ ~command[c].alone
Damage == \E c \in Commands : Wrecked(c)

\* A setup that nothing disturbed knows what it found: nothing but its own
\* write has changed it, and it was sound unless there was damage before.
Own(c) ==
  /\ Kind[c] = "setup" /\ Target[c] = Recorder /\ Running(c) /\ command[c].alone
Sound(found) == found.file # "torn" /\ (found.hooks # {} => Whole(found.file))
Story(c) ==
  LET r == command[c] IN
  /\ settings.hooks \cap Vexic = r.found.hooks
  /\ r.pc \in {"load", "previous", "write"} => file[Recorder] = r.found.file
  /\ r.pc \in {"write", "verify", "edit", "restore", "rewrite"} => r.previous = r.found.file
  /\ r.pc \in {"verify", "edit"} => file[Recorder] = c
  /\ Sound(r.found) \/ Damage
Stories == \A c \in Commands : Own(c) => Story(c)

\* A file is torn only while a setup is being undone, or after.
TornByUndoing ==
  file[Recorder] = "torn" => \E c \in Commands : Undoes(c)

\* What a command that will write the settings has read holds every hook that
\* was not put in behind its back.
HeldCopies ==
  \A c \in Commands :
    Target[c] = Recorder /\ HoldsSettings(c) => added \ raced \subseteq command[c].read

HostInv ==
  HostTyped /\ Met /\ Stories /\ HookHasConfig /\ TornByUndoing /\ HeldCopies /\ OthersKept

-------------------------------------------------------------------------------
(* What a prime is between its steps *)

PrimeType ==
  [pc : {"none", "boot", "input", "mark", "join", "print", "error", "finish", "exited", "killed"},
   elapsed : Nat, began : Nat, asked : Nat, stalled : Nat,
   leg : [LegNames -> {"reading", "stored", "ok", "error"}],
   joined : 0 .. Len(Legs), final : SUBSET LegNames,
   finisher : {"none", "status", "spawn", "done"}, reported : BOOLEAN]

PrimeTyped ==
  /\ prime \in [Primes -> PrimeType]
  /\ status \in [by : Primes \cup {"none"}, phase : {"none", "started", "finished"},
                 legs : SUBSET LegNames]
  /\ printed \in [Primes -> SUBSET LegNames]
  /\ taken \subseteq Primes

\* Until the reads are asked for every unit of time is one that stalled; then
\* the reads add no more than their deadline, and the wait for the finisher
\* ends in time.
Timely(r) ==
  /\ r.pc \in {"none", "boot", "input", "mark"} => r.elapsed = r.stalled
  /\ r.pc \in {"input", "mark"} => r.began <= r.elapsed
  /\ r.pc = "join" => r.asked <= r.stalled /\ r.elapsed <= r.asked + Deadline
  /\ r.pc \in {"join", "print", "error", "finish", "killed"} =>
       \/ r.elapsed <= r.stalled + Deadline
       \/ r.elapsed <= r.began + FinishBy
  /\ r.pc \in {"print", "error"} => r.elapsed <= r.stalled + Deadline
  /\ r.pc = "killed" => r.elapsed = KillAt

\* What a prime printed and what the status says of it, as it goes on.
Telling(p) ==
  /\ prime[p].pc \in {"none", "boot", "input", "mark", "join", "error"} =>
       printed[p] = {} /\ ~prime[p].reported
  /\ prime[p].pc \in {"print", "finish"} => printed[p] = prime[p].final
  /\ prime[p].pc = "finish" /\ prime[p].finisher = "status" => ~prime[p].reported
  /\ prime[p].pc = "print" => ~prime[p].reported
  /\ status.by = p =>
       /\ prime[p].pc \notin {"none", "boot", "input", "mark"}
       /\ prime[p].pc = "exited" => p \in taken
       /\ status.phase = "started" => ~prime[p].reported
       /\ status.phase = "finished" =>
            prime[p].pc \in {"finish", "exited", "killed"} /\ status.legs = printed[p]
       /\ status.phase # "none"

PrimeInv == PrimeTyped /\ \A p \in Primes : Timely(prime[p]) /\ Telling(p)

-------------------------------------------------------------------------------
(* One command moves *)

LEMMA Apart ==
  /\ Commands \cap {"absent", "torn", "old"} = {}
  /\ Others \cap Vexic = {}
<1>1. \A h \in Vexic : h[2] = "vexic"
  BY DEF Vexic
<1> QED
  BY <1>1, HostAssumption DEF HostAssumption

LEMMA ReadyTyped ==
  /\ Ready \in CommandType
  /\ Ready.pc = "start" /\ Ready.alive /\ Ready.alone
  BY DEF Ready, CommandType, Places, Ended, Contents, Hooks

\* The command's fields one by one.
LEMMA CommandFields ==
  ASSUME NEW r \in CommandType
  PROVE  /\ r.pc \in Places /\ r.alive \in BOOLEAN /\ r.read \subseteq Hooks
         /\ r.previous \in Contents /\ r.alone \in BOOLEAN
         /\ r.found.file \in Contents /\ r.found.hooks \subseteq Vexic
  BY DEF CommandType

\* What a step of command c does to the commands: it goes where r says, unless
\* it ends it keeps what r holds, and whoever runs beside it is alone no more.
Stays(d) ==
  /\ command'[d].pc = command[d].pc /\ command'[d].alive = command[d].alive
  /\ command'[d].read = command[d].read /\ command'[d].previous = command[d].previous
  /\ command'[d].found = command[d].found
  /\ command'[d].alone => command[d].alone
GoesWith(c, r) ==
  /\ command'[c].pc = r.pc /\ command'[c].alive = r.alive
  /\ command'[c].alone = (r.alone /\ Rivals(c) = {})
  /\ r.pc \notin Ended => /\ command'[c].read = r.read /\ command'[c].found = r.found
                          /\ command'[c].previous = r.previous
Goings(c, r) ==
  /\ command' \in [Commands -> CommandType]
  /\ \A d \in Commands \ {c} :
       /\ Stays(d)
       /\ command'[d].alone = (command[d].alone /\ d \notin Rivals(c))
  /\ GoesWith(c, r)

LEMMA GoesEffect ==
  ASSUME HostTyped, NEW c \in Commands, NEW r \in CommandType, Goes(c, r)
  PROVE  Goings(c, r)
<1> DEFINE met == [r EXCEPT !.alone = r.alone /\ Rivals(c) = {}]
           left == [Ready EXCEPT !.pc = met.pc, !.alone = met.alone, !.alive = met.alive]
           lone == r.alone /\ Rivals(c) = {}
           other(d) == [command[d] EXCEPT !.alone = command[d].alone /\ d \notin Rivals(c)]
<1>1. command' = [d \in Commands |-> IF d # c THEN other(d)
                                     ELSE IF r.pc \in Ended THEN left ELSE met]
  BY DEF Goes, Left
<1>2. lone \in BOOLEAN
  OBVIOUS
<1>3. /\ met \in CommandType /\ met.pc = r.pc /\ met.alive = r.alive /\ met.alone = lone
      /\ met.read = r.read /\ met.previous = r.previous /\ met.found = r.found
  BY <1>2 DEF CommandType
<1>4. left \in CommandType /\ left.pc = r.pc /\ left.alive = r.alive /\ left.alone = lone
  <2> HIDE DEF met
  <2>1. Ready \in CommandType
    BY ReadyTyped
  <2>2. met.pc \in Places /\ met.alive \in BOOLEAN /\ met.alone \in BOOLEAN
    BY <1>3, CommandFields
  <2>3. left \in CommandType /\ left.pc = met.pc /\ left.alive = met.alive
          /\ left.alone = met.alone
    BY <2>1, <2>2 DEF CommandType
  <2> QED
    BY <2>3, <1>3
<1>5. ASSUME NEW d \in Commands
      PROVE  /\ other(d) \in CommandType
             /\ other(d).pc = command[d].pc /\ other(d).alive = command[d].alive
             /\ other(d).read = command[d].read
             /\ other(d).previous = command[d].previous
             /\ other(d).found = command[d].found
             /\ other(d).alone = (command[d].alone /\ d \notin Rivals(c))
  <2>1. command[d] \in CommandType
    BY DEF HostTyped
  <2> DEFINE b == command[d].alone /\ d \notin Rivals(c)
  <2>2. b \in BOOLEAN
    OBVIOUS
  <2>3. other(d) = [command[d] EXCEPT !.alone = b]
    OBVIOUS
  <2> HIDE DEF b
  <2>4. [command[d] EXCEPT !.alone = b] \in CommandType
          /\ [command[d] EXCEPT !.alone = b].alone = b
    BY <2>1, <2>2 DEF CommandType
  <2>5. /\ other(d).pc = command[d].pc /\ other(d).alive = command[d].alive
        /\ other(d).read = command[d].read
        /\ other(d).previous = command[d].previous
        /\ other(d).found = command[d].found
    BY <2>1, <2>3 DEF CommandType
  <2> QED
    BY <2>3, <2>4, <2>5 DEF b
<1> HIDE DEF met, left, other, lone
<1>6. command'[c] = IF r.pc \in Ended THEN left ELSE met
  BY <1>1
<1>7. \A d \in Commands \ {c} : command'[d] = other(d)
  BY <1>1
<1>8. command' \in [Commands -> CommandType]
  BY <1>1, <1>3, <1>4, <1>5
<1>9. ASSUME NEW d \in Commands \ {c}
      PROVE  /\ Stays(d)
             /\ command'[d].alone = (command[d].alone /\ d \notin Rivals(c))
  <2>1. command'[d] = other(d)
    BY <1>7
  <2>2. command'[d].alone = (command[d].alone /\ d \notin Rivals(c))
    BY <2>1, <1>5
  <2>3. /\ command'[d].pc = command[d].pc /\ command'[d].alive = command[d].alive
        /\ command'[d].read = command[d].read
        /\ command'[d].previous = command[d].previous
        /\ command'[d].found = command[d].found
    BY <2>1, <1>5
  <2> QED
    BY <2>2, <2>3 DEF Stays
<1>10. GoesWith(c, r)
  BY <1>6, <1>3, <1>4 DEF GoesWith, lone
<1> QED
  BY <1>8, <1>9, <1>10 DEF Goings

\* Command c, which is not over, goes to a place; it and those beside it have
\* met.
MovesTo(c, pc) ==
  /\ command' \in [Commands -> CommandType]
  /\ \A d \in Commands \ {c} :
       Stays(d) /\ command'[d].alone = (command[d].alone /\ d \notin Rivals(c))
  /\ command'[c].pc = pc /\ command'[c].alive = command[c].alive
  /\ command'[c].alone = (command[c].alone /\ Rivals(c) = {})
Holding(c) ==
  /\ command'[c].read = command[c].read /\ command'[c].found = command[c].found
  /\ command'[c].previous = command[c].previous
Active(c) == command[c].alive /\ command[c].pc \notin Ended

LEMMA ToEffect ==
  ASSUME HostTyped, NEW c \in Commands, NEW pc \in Places, To(c, pc)
  PROVE  MovesTo(c, pc) /\ (pc \notin Ended => Holding(c))
<1> DEFINE r == [command[c] EXCEPT !.pc = pc]
<1>1. command[c] \in CommandType
  BY DEF HostTyped
<1>2. /\ r \in CommandType /\ r.pc = pc /\ r.alive = command[c].alive
      /\ r.alone = command[c].alone /\ r.read = command[c].read
      /\ r.found = command[c].found /\ r.previous = command[c].previous
  BY <1>1 DEF CommandType
<1>3. Goes(c, r)
  BY DEF To
<1> HIDE DEF r
<1>4. Goings(c, r)
  BY <1>2, <1>3, GoesEffect
<1> QED
  BY <1>2, <1>4 DEF Goings, GoesWith, MovesTo, Holding

LEMMA LoadEffect ==
  ASSUME HostTyped, NEW c \in Commands, NEW pc \in Places,
         Goes(c, [command[c] EXCEPT !.read = settings.hooks, !.pc = pc])
  PROVE  /\ MovesTo(c, pc)
         /\ pc \notin Ended => /\ command'[c].read = settings.hooks
                               /\ command'[c].found = command[c].found
<1> DEFINE r == [command[c] EXCEPT !.read = settings.hooks, !.pc = pc]
<1>1. command[c] \in CommandType /\ settings.hooks \in SUBSET Hooks
  BY DEF HostTyped
<1>2. /\ r \in CommandType /\ r.pc = pc /\ r.alive = command[c].alive
      /\ r.alone = command[c].alone /\ r.read = settings.hooks
      /\ r.found = command[c].found
  BY <1>1 DEF CommandType
<1>3. Goes(c, r)
  OBVIOUS
<1> HIDE DEF r
<1>4. Goings(c, r)
  BY <1>2, <1>3, GoesEffect
<1> QED
  BY <1>2, <1>4 DEF Goings, GoesWith, MovesTo

LEMMA PreviousEffect ==
  ASSUME HostTyped, NEW c \in Commands, NEW pc \in Places,
         Goes(c, [command[c] EXCEPT !.previous = file[Target[c]], !.pc = pc])
  PROVE  /\ MovesTo(c, pc)
         /\ pc \notin Ended => /\ command'[c].previous = file[Target[c]]
                               /\ command'[c].read = command[c].read
                               /\ command'[c].found = command[c].found
<1> DEFINE r == [command[c] EXCEPT !.previous = file[Target[c]], !.pc = pc]
<1>1. command[c] \in CommandType /\ file[Target[c]] \in Contents
  BY DEF HostTyped, Files
<1>2. /\ r \in CommandType /\ r.pc = pc /\ r.alive = command[c].alive
      /\ r.alone = command[c].alone /\ r.previous = file[Target[c]]
      /\ r.found = command[c].found /\ r.read = command[c].read
  BY <1>1 DEF CommandType
<1>3. Goes(c, r)
  OBVIOUS
<1> HIDE DEF r
<1>4. Goings(c, r)
  BY <1>2, <1>3, GoesEffect
<1> QED
  BY <1>2, <1>4 DEF Goings, GoesWith, MovesTo

LEMMA BeginsEffect ==
  ASSUME HostTyped, NEW c \in Commands, NEW pc \in Places, Begins(c, pc)
  PROVE  /\ MovesTo(c, pc)
         /\ pc \notin Ended => /\ command'[c].found.file = file[Target[c]]
                               /\ command'[c].found.hooks = settings.hooks \cap Vexic
<1> DEFINE found == [file |-> file[Target[c]], hooks |-> settings.hooks \cap Vexic]
           r == [command[c] EXCEPT !.pc = pc, !.found = found]
<1>1. command[c] \in CommandType /\ file[Target[c]] \in Contents
  BY DEF HostTyped, Files
<1>2. found \in [file : Contents, hooks : SUBSET Vexic]
  BY <1>1
<1>3. /\ r \in CommandType /\ r.pc = pc /\ r.alive = command[c].alive
      /\ r.alone = command[c].alone /\ r.found = found
  <2> HIDE DEF found
  <2> QED
    BY <1>1, <1>2 DEF CommandType
<1>4. Goes(c, r)
  BY DEF Begins
<1> HIDE DEF r
<1>5. Goings(c, r)
  BY <1>3, <1>4, GoesEffect
<1> QED
  BY <1>3, <1>5 DEF Goings, GoesWith, MovesTo

LEMMA ActiveSame ==
  ASSUME HostTyped, NEW c \in Commands, Active(c), NEW pc, MovesTo(c, pc),
         NEW d \in Commands, d # c
  PROVE  /\ Running(d)' = Running(d) /\ HoldsSettings(d)' = HoldsSettings(d)
         /\ Own(d)' => Own(d) /\ Target[c] # Recorder
         /\ Undoes(d) => Undoes(d)'
         /\ Wrecked(d) => Wrecked(d)'
<1>1. Stays(d) /\ command'[d].alone = (command[d].alone /\ d \notin Rivals(c))
  BY DEF MovesTo
<1>2. Running(d)' = Running(d) /\ HoldsSettings(d)' = HoldsSettings(d)
  BY <1>1 DEF Stays, Running, HoldsSettings, At
<1>3. Own(d)' => Own(d) /\ Target[c] # Recorder
  BY <1>1, <1>2 DEF Stays, Own, Rivals
<1>4. (Undoes(d) => Undoes(d)') /\ (Wrecked(d) => Wrecked(d)')
  BY <1>1 DEF Stays, Undoes, Wrecked
<1> QED
  BY <1>2, <1>3, <1>4

\* What is damaged stays damaged, and two that run beside each other have met.
LEMMA DamageStays ==
  ASSUME HostTyped, NEW c \in Commands, Active(c), NEW pc, MovesTo(c, pc), Damage
  PROVE  Damage'
<1>1. PICK d \in Commands : Wrecked(d)
  BY DEF Damage
<1>2. CASE d # c
  <2>1. Wrecked(d)'
    BY <1>1, <1>2, ActiveSame
  <2> QED
    BY <2>1 DEF Damage, Wrecked
<1>3. CASE d = c
  <2>1. ~command[c].alone
    BY <1>1, <1>3 DEF Wrecked, Active, Ended
  <2>2. Wrecked(c)'
    BY <2>1, <1>1, <1>3 DEF Wrecked, MovesTo
  <2> QED
    BY <2>2 DEF Damage
<1> QED
  BY <1>2, <1>3

LEMMA MetKept ==
  ASSUME HostTyped, Met, NEW c \in Commands, Active(c), NEW pc, MovesTo(c, pc)
  PROVE  Met'
<1> SUFFICES ASSUME NEW d \in Commands, NEW e \in Commands, d # e,
                    Running(d)', Running(e)', Target[d] = Target[e]
             PROVE  ~command'[d].alone
  BY DEF Met
<1>1. CASE d = c
  <2>1. Running(e)
    BY <1>1, ActiveSame
  <2>2. e \in Rivals(c)
    BY <2>1, <1>1 DEF Rivals
  <2> QED
    BY <2>2, <1>1 DEF MovesTo
<1>2. CASE e = c
  <2>1. Running(d)
    BY <1>2, ActiveSame
  <2>2. d \in Rivals(c)
    BY <2>1, <1>2 DEF Rivals
  <2> QED
    BY <2>2, <1>2 DEF MovesTo
<1>3. CASE d # c /\ e # c
  <2>1. Running(d) /\ Running(e)
    BY <1>3, ActiveSame
  <2>2. ~command[d].alone
    BY <2>1 DEF Met
  <2> QED
    BY <2>2, <1>3 DEF MovesTo, Stays
<1> QED
  BY <1>1, <1>2, <1>3

\* A command about another file leaves what the recorder's setups look at.
Minds(c) ==
  Target[c] # Recorder =>
    /\ file'[Recorder] = file[Recorder]
    /\ settings'.hooks \cap Vexic = settings.hooks \cap Vexic

LEMMA OthersStories ==
  ASSUME HostTyped, Stories, NEW c \in Commands, Active(c), NEW pc, MovesTo(c, pc),
         Minds(c), NEW d \in Commands, d # c, Own(d)'
  PROVE  Story(d)'
<1>1. Own(d)
  BY ActiveSame
<1>2. Story(d)
  BY <1>1 DEF Stories
<1>3. Stays(d)
  BY DEF MovesTo
<1>4. Target[c] # Recorder
  BY ActiveSame
<1>5. /\ file'[Recorder] = file[Recorder]
      /\ settings'.hooks \cap Vexic = settings.hooks \cap Vexic
  BY <1>4 DEF Minds
<1> QED
  BY <1>5, <1>2, <1>3, DamageStays DEF Stays, Story

\* What remains to be shown of a step of a command.
StepSound(c, pc) ==
  /\ MovesTo(c, pc) /\ Minds(c) /\ UNCHANGED <<raced, added>>
  /\ file' \in [Files -> Contents] /\ settings' \in [valid : BOOLEAN, hooks : SUBSET Hooks]
  /\ PlaceFits(c)' /\ (Own(c)' => Story(c)')
  /\ HookHasConfig' /\ TornByUndoing'
  /\ Target[c] = Recorder /\ HoldsSettings(c)' => added \ raced \subseteq command'[c].read
  /\ OthersKept'

LEMMA StepKeepsInv ==
  ASSUME HostInv, NEW c \in Commands, Active(c), NEW pc, StepSound(c, pc)
  PROVE  HostInv'
<1> USE DEF HostInv
<1>1. MovesTo(c, pc)
  BY DEF StepSound
<1>2. HostTyped'
  <2>1. ASSUME NEW d \in Commands, d # c  PROVE  PlaceFits(d)'
    BY <2>1, <1>1 DEF MovesTo, Stays, HostTyped, PlaceFits
  <2>2. command' \in [Commands -> CommandType]
    BY <1>1 DEF MovesTo
  <2> QED
    BY <2>1, <2>2 DEF StepSound, HostTyped
<1>3. Met'
  BY <1>1, MetKept
<1>4. Stories'
  BY <1>1, OthersStories DEF StepSound, Stories
<1>5. HeldCopies'
  <2>1. ASSUME NEW d \in Commands, d # c, Target[d] = Recorder, HoldsSettings(d)'
        PROVE  (added \ raced)' \subseteq command'[d].read
    <3>1. HoldsSettings(d)
      BY <2>1, <1>1, ActiveSame
    <3>2. added \ raced \subseteq command[d].read
      BY <2>1, <3>1 DEF HeldCopies
    <3> QED
      BY <2>1, <3>2, <1>1 DEF MovesTo, Stays, StepSound
  <2>2. Target[c] = Recorder /\ HoldsSettings(c)' => (added \ raced)' \subseteq command'[c].read
    BY DEF StepSound
  <2> QED
    BY <2>1, <2>2 DEF HeldCopies
<1> QED
  BY <1>2, <1>3, <1>4, <1>5 DEF StepSound

LEMMA TroubleStays ==
  ASSUME HostTyped, NEW c \in Commands, Active(c), NEW pc, MovesTo(c, pc),
         Undoes(c) => Undoes(c)', \E d \in Commands : Undoes(d)
  PROVE  \E d \in Commands : Undoes(d)'
<1>1. PICK d \in Commands : Undoes(d)
  OBVIOUS
<1>2. CASE d # c
  BY <1>1, <1>2, ActiveSame
<1>3. CASE d = c
  BY <1>1, <1>3
<1> QED
  BY <1>2, <1>3

LEMMA NotUndoingYet ==
  ASSUME NEW c \in Commands, NEW pc, MovesTo(c, pc),
         command[c].pc \notin {"restore", "rewrite", "unrestored"}
  PROVE  Undoes(c) => Undoes(c)'
  BY DEF MovesTo, Undoes

LEMMA OverOrNotBegun ==
  ASSUME NEW c \in Commands, NEW pc, MovesTo(c, pc), pc \in {"start"} \cup Ended
  PROVE  ~Own(c)' /\ ~HoldsSettings(c)'
  BY DEF MovesTo, Own, Running, HoldsSettings, At, Ended

\* A step of a command that writes nothing.
LEMMA CalmStep ==
  ASSUME HostInv, NEW c \in Commands, Active(c), NEW pc, MovesTo(c, pc),
         UNCHANGED <<file, settings, raced, added>>, Undoes(c) => Undoes(c)',
         PlaceFits(c)', Own(c)' => Story(c)',
         Target[c] = Recorder /\ HoldsSettings(c)' => added \ raced \subseteq command'[c].read
  PROVE  HostInv'
<1> USE DEF HostInv
<1>1. Minds(c)
  BY DEF Minds
<1>2. file' \in [Files -> Contents] /\ settings' \in [valid : BOOLEAN, hooks : SUBSET Hooks]
  BY DEF HostTyped
<1>3. (\E d \in Commands : Undoes(d)) => \E d \in Commands : Undoes(d)'
  BY TroubleStays
<1>4. HookHasConfig' /\ TornByUndoing'
  <2>1. HookHasConfig'
    BY <1>3 DEF HookHasConfig, Undoes
  <2>2. TornByUndoing'
    BY <1>3 DEF TornByUndoing, Undoes
  <2> QED
    BY <2>1, <2>2
<1>5. OthersKept'
  BY DEF OthersKept
<1>6. StepSound(c, pc)
  BY <1>1, <1>2, <1>4, <1>5 DEF StepSound
<1> QED
  BY <1>6, StepKeepsInv

\* What a setup finds that runs beside nobody is sound, unless there is damage.
LEMMA SoundFound ==
  ASSUME HostInv, NEW c \in Commands, command[c].pc = "start", command[c].alone,
         Rivals(c) = {}, Target[c] = Recorder
  PROVE  \/ /\ file[Recorder] # "torn"
            /\ settings.hooks \cap Vexic # {} => Whole(file[Recorder])
         \/ Damage
<1> SUFFICES ASSUME NEW d \in Commands, Undoes(d)
             PROVE  Wrecked(d)
  BY DEF HostInv, HookHasConfig, TornByUndoing, Damage
<1>1. d # c
  BY DEF Undoes
<1>2. ~Running(d)
  BY <1>1 DEF Rivals, Undoes
<1> QED
  BY <1>2 DEF Undoes, Wrecked, Running, Ended

LEMMA ExchangeKeeps ==
  ASSUME HostInv, NEW c \in Commands, Exchange(c)
  PROVE  HostInv'
<1> USE DEF HostInv
<1>1. /\ command[c].pc = "start" /\ Active(c) /\ Kind[c] = "setup"
      /\ UNCHANGED <<file, settings, raced, added>>
  BY DEF Exchange, At, Active, Ended
<1>2. PICK pc \in {"load", "write", "failed"} :
        Begins(c, pc) /\ (pc = "load" => Target[c] = Recorder)
          /\ (pc = "write" => Target[c] # Recorder)
  BY DEF Exchange
<1>3. pc \in Places
  BY DEF Places, Ended
<1>4. /\ MovesTo(c, pc)
      /\ pc \notin Ended => /\ command'[c].found.file = file[Target[c]]
                            /\ command'[c].found.hooks = settings.hooks \cap Vexic
  BY <1>2, <1>3, BeginsEffect
<1>5. command'[c].pc = pc
  BY <1>4 DEF MovesTo
<1>6. Undoes(c) => Undoes(c)'
  BY <1>1, <1>4, NotUndoingYet
<1>7. PlaceFits(c)'
  BY <1>1, <1>2, <1>5 DEF PlaceFits
<1>8. ASSUME Own(c)'  PROVE  Story(c)'
  <2>1. pc = "load" /\ Target[c] = Recorder /\ command[c].alone /\ Rivals(c) = {}
    BY <1>8, <1>5, <1>4, <1>2 DEF Own, Running, Ended, MovesTo
  <2>2. /\ command'[c].found.file = file[Recorder]
        /\ command'[c].found.hooks = settings.hooks \cap Vexic
    BY <1>4, <2>1 DEF Ended
  <2>3. Sound(command'[c].found) \/ Damage
    BY <2>1, <2>2, <1>1, SoundFound DEF Sound
  <2>4. Damage => Damage'
    BY <1>1, <1>4, DamageStays
  <2> QED
    BY <2>1, <2>2, <2>3, <2>4, <1>1, <1>5 DEF Story, Sound
<1>9. Target[c] = Recorder /\ HoldsSettings(c)' => added \ raced \subseteq command'[c].read
  BY <1>5, <1>2 DEF HoldsSettings, At
<1> QED
  BY <1>1, <1>4, <1>6, <1>7, <1>8, <1>9, CalmStep

LEMMA LoadKeeps ==
  ASSUME HostInv, NEW c \in Commands, LoadSettings(c)
  PROVE  HostInv'
<1> USE DEF HostInv
<1>1. /\ command[c].pc = "load" /\ command[c].alive /\ Active(c) /\ Target[c] = Recorder
      /\ UNCHANGED <<file, settings, raced, added>>
  BY DEF LoadSettings, At, Active, Ended, HostTyped, PlaceFits
<1>2. CASE To(c, "failed")
  <2>1. PICK pc \in {"failed"} : To(c, pc)
    BY <1>2
  <2>2. MovesTo(c, pc) /\ pc \in Ended
    BY <2>1, ToEffect DEF Ended, Places
  <2>3. Undoes(c) => Undoes(c)'
    BY <1>1, <2>2, NotUndoingYet
  <2>4. PlaceFits(c)' /\ ~Own(c)' /\ ~HoldsSettings(c)'
    BY <2>1, <2>2, OverOrNotBegun DEF PlaceFits, MovesTo
  <2> QED
    BY <1>1, <2>2, <2>3, <2>4, CalmStep
<1>3. CASE ~To(c, "failed")
  <2>1. PICK pc \in {"previous", "edit"} :
          /\ Goes(c, [command[c] EXCEPT !.read = settings.hooks, !.pc = pc])
          /\ pc = "previous" => Kind[c] = "setup"
          /\ pc = "edit" => Kind[c] # "setup"
    BY <1>3 DEF LoadSettings
  <2>2. pc \in Places /\ pc \notin Ended
    BY DEF Places, Ended
  <2>3. /\ MovesTo(c, pc) /\ command'[c].read = settings.hooks
        /\ command'[c].found = command[c].found
    BY <2>1, <2>2, LoadEffect
  <2>4. command'[c].pc = pc /\ (command'[c].alone => command[c].alone)
    BY <2>3 DEF MovesTo
  <2>5. Undoes(c) => Undoes(c)'
    BY <1>1, <2>3, NotUndoingYet
  <2>6. PlaceFits(c)'
    BY <1>1, <2>1, <2>4 DEF PlaceFits
  <2>7. ASSUME Own(c)'  PROVE  Story(c)'
    <3>1. pc = "previous" /\ Own(c)
      BY <2>7, <2>1, <2>4, <1>1 DEF Own, Running, Ended
    <3>2. Story(c) /\ (Damage => Damage')
      BY <3>1, <1>1, <2>3, DamageStays DEF Stories
    <3> QED
      BY <3>1, <3>2, <2>3, <2>4, <1>1 DEF Story
  <2>8. added \ raced \subseteq command'[c].read
    BY <2>3 DEF OthersKept
  <2> QED
    BY <1>1, <2>3, <2>5, <2>6, <2>7, <2>8, CalmStep
<1> QED
  BY <1>2, <1>3

LEMMA PreviousKeeps ==
  ASSUME HostInv, NEW c \in Commands, ReadPrevious(c)
  PROVE  HostInv'
<1> USE DEF HostInv
<1>1. /\ command[c].pc = "previous" /\ command[c].alive /\ Active(c) /\ Target[c] = Recorder
      /\ Kind[c] = "setup" /\ UNCHANGED <<file, settings, raced, added>>
  BY DEF ReadPrevious, At, Active, Ended, HostTyped, PlaceFits
<1>2. CASE To(c, "failed")
  <2>1. PICK pc \in {"failed"} : To(c, pc)
    BY <1>2
  <2>2. MovesTo(c, pc) /\ pc \in Ended
    BY <2>1, ToEffect DEF Ended, Places
  <2>3. Undoes(c) => Undoes(c)'
    BY <1>1, <2>2, NotUndoingYet
  <2>4. PlaceFits(c)' /\ ~Own(c)' /\ ~HoldsSettings(c)'
    BY <2>1, <2>2, OverOrNotBegun DEF PlaceFits, MovesTo
  <2> QED
    BY <1>1, <2>2, <2>3, <2>4, CalmStep
<1>3. CASE ~To(c, "failed")
  <2>1. PICK pc \in {"write"} :
          Goes(c, [command[c] EXCEPT !.previous = file[Target[c]], !.pc = pc])
    BY <1>3 DEF ReadPrevious
  <2>2. pc \in Places /\ pc \notin Ended
    BY DEF Places, Ended
  <2>3. /\ MovesTo(c, pc) /\ command'[c].previous = file[Recorder]
        /\ command'[c].found = command[c].found /\ command'[c].read = command[c].read
    BY <2>1, <2>2, <1>1, PreviousEffect
  <2>4. command'[c].pc = pc /\ (command'[c].alone => command[c].alone)
    BY <2>3 DEF MovesTo
  <2>5. Undoes(c) => Undoes(c)'
    BY <1>1, <2>3, NotUndoingYet
  <2>6. PlaceFits(c)'
    BY <1>1, <2>1, <2>4 DEF PlaceFits
  <2>7. ASSUME Own(c)'  PROVE  Story(c)'
    <3>1. Own(c)
      BY <2>7, <2>4, <1>1 DEF Own, Running, Ended
    <3>2. Story(c) /\ (Damage => Damage')
      BY <3>1, <1>1, <2>3, DamageStays DEF Stories
    <3> QED
      BY <3>1, <3>2, <2>3, <2>4, <1>1 DEF Story
  <2>8. added \ raced \subseteq command'[c].read
    BY <2>3, <1>1 DEF HeldCopies, HoldsSettings, At
  <2> QED
    BY <1>1, <2>3, <2>5, <2>6, <2>7, <2>8, CalmStep
<1> QED
  BY <1>2, <1>3

\* A setup that nothing disturbed goes on with what it holds.
LEMMA StoryGoesOn ==
  ASSUME HostInv, NEW c \in Commands, Active(c), Running(c), NEW pc, MovesTo(c, pc),
         Holding(c), Own(c)',
         settings'.hooks \cap Vexic = settings.hooks \cap Vexic,
         pc \in {"load", "previous", "write"} => file'[Recorder] = command[c].found.file,
         pc \in {"write", "verify", "edit", "restore", "rewrite"} =>
           command[c].previous = command[c].found.file,
         pc \in {"verify", "edit"} => file'[Recorder] = c
  PROVE  Story(c)'
<1> USE DEF HostInv
<1>1. command'[c].pc = pc /\ (command'[c].alone => command[c].alone)
  BY DEF MovesTo
<1>2. Own(c)
  BY <1>1 DEF Own
<1>3. Story(c) /\ (Damage => Damage')
  BY <1>2, DamageStays DEF Stories
<1> QED
  BY <1>1, <1>3 DEF Story, Holding

\* A command that fails without having written anything.
LEMMA FailKeeps ==
  ASSUME HostInv, NEW c \in Commands, Active(c), Running(c), NEW pc \in {"restore", "failed"},
         To(c, pc), UNCHANGED <<file, settings, raced, added>>,
         command[c].pc \in {"write", "verify", "edit"},
         pc = "restore" => Target[c] = Recorder /\ Kind[c] = "setup"
  PROVE  HostInv'
<1> USE DEF HostInv
<1>1. /\ MovesTo(c, pc) /\ (pc \notin Ended => Holding(c))
  BY ToEffect DEF Places, Ended
<1>2. command'[c].pc = pc /\ (command'[c].alone => command[c].alone)
  BY <1>1 DEF MovesTo
<1>3. Undoes(c) => Undoes(c)'
  BY <1>1, NotUndoingYet
<1>4. PlaceFits(c)'
  BY <1>2 DEF PlaceFits
<1>5. ASSUME Own(c)'  PROVE  Story(c)'
  <2>1. pc = "restore"
    BY <1>5, <1>1, OverOrNotBegun DEF Ended
  <2>2. Own(c) /\ Holding(c)
    BY <2>1, <1>1, <1>2, <1>5 DEF Own, Ended
  <2>3. command[c].previous = command[c].found.file
    BY <2>2 DEF Stories, Story
  <2> QED
    BY <2>1, <2>2, <2>3, <1>1, <1>5, StoryGoesOn
<1>6. ~HoldsSettings(c)'
  BY <1>2 DEF HoldsSettings, At
<1> QED
  BY <1>1, <1>3, <1>4, <1>5, <1>6, CalmStep

\* A command puts its file in place: what it leaves of the recorder's is whole,
\* or something is being undone or was damaged.
LEMMA WholeNow ==
  ASSUME HostInv, NEW c \in Commands, Active(c), NEW pc, MovesTo(c, pc),
         NEW x \in Contents, Target[c] # Recorder => x # "torn",
         file' = [file EXCEPT ![Target[c]] = x], UNCHANGED settings,
         Target[c] = Recorder =>
           \/ Whole(x) \/ Undoes(c)' \/ Damage
           \/ x = "absent" /\ settings.hooks \cap Vexic = {},
         Undoes(c) => Undoes(c)' \/ Target[c] = Recorder
  PROVE  /\ HookHasConfig' /\ TornByUndoing' /\ file' \in [Files -> Contents] /\ Minds(c)
<1> USE DEF HostInv
<1>1. Target[c] \in Files /\ Recorder \in Files
  BY DEF Files
<1>2. file' \in [Files -> Contents] /\ file'[Target[c]] = x
        /\ \A f \in Files : f # Target[c] => file'[f] = file[f]
  BY <1>1 DEF HostTyped
<1>3. Minds(c)
  BY <1>1, <1>2 DEF Minds
<1>4. Damage => \E d \in Commands : Undoes(d)'
  <2>1. Damage => \E d \in Commands : Wrecked(d)'
    BY DamageStays DEF Damage, Wrecked
  <2>2. ASSUME NEW d \in Commands, Wrecked(d)'  PROVE  Undoes(d)'
    BY <2>2 DEF Wrecked, Undoes
  <2> QED
    BY <2>1, <2>2
<1>5. CASE Target[c] = Recorder
  <2>1. file'[Recorder] = x /\ \A f \in Files \ {Recorder} : file'[f] = file[f]
    BY <1>2, <1>5
  <2>2. TornByUndoing'
    <3>1. x = "torn" => \E d \in Commands : Undoes(d)'
      BY <1>4, <1>5 DEF Whole
    <3> QED
      BY <2>1, <3>1 DEF TornByUndoing, Undoes
  <2>3. /\ settings'.hooks \cap Vexic # {} =>
             Whole(x) \/ \E d \in Commands : Undoes(d)'
    BY <1>4, <1>5 DEF Whole
  <2>4. HookHasConfig'
    BY <2>1, <2>3 DEF HookHasConfig, Whole, Undoes
  <2> QED
    BY <2>2, <2>4, <1>2, <1>3
<1>6. CASE Target[c] # Recorder
  <2>1. file'[Recorder] = file[Recorder]
    BY <1>2, <1>1, <1>6
  <2>2. (\E d \in Commands : Undoes(d)) => \E d \in Commands : Undoes(d)'
    BY <1>6, TroubleStays
  <2>3. TornByUndoing'
    BY <2>1, <2>2 DEF TornByUndoing, Undoes
  <2>4. settings'.hooks \cap Vexic # {} =>
             Whole(file'[Recorder]) \/ \E d \in Commands : Undoes(d)'
    BY <2>1, <2>2 DEF HookHasConfig
  <2>5. \A f \in Files \ {Recorder} : file'[f] # "torn"
    BY <1>2 DEF HookHasConfig
  <2>6. HookHasConfig'
    BY <2>4, <2>5 DEF HookHasConfig, Undoes
  <2> QED
    BY <2>3, <2>6, <1>2, <1>3
<1> QED
  BY <1>5, <1>6

LEMMA WriteKeeps ==
  ASSUME HostInv, NEW c \in Commands, WriteSecret(c)
  PROVE  HostInv'
<1> USE DEF HostInv
<1>1. /\ command[c].pc = "write" /\ Active(c) /\ Running(c) /\ Kind[c] = "setup"
      /\ UNCHANGED <<settings, raced, added>>
  BY DEF WriteSecret, At, Active, Running, Ended, HostTyped, PlaceFits
<1>2. CASE UNCHANGED file /\ To(c, AfterFailure(c))
  <2>1. AfterFailure(c) \in {"restore", "failed"}
    BY DEF AfterFailure
  <2>2. PICK pc \in {"restore", "failed"} :
          To(c, pc) /\ (pc = "restore" => Target[c] = Recorder)
    BY <2>1, <1>2 DEF AfterFailure
  <2> QED
    BY <1>1, <1>2, <2>2, FailKeeps
<1>3. CASE file' = [file EXCEPT ![Target[c]] = c] /\ To(c, "verify")
  <2>1. PICK pc \in {"verify"} : To(c, pc)
    BY <1>3
  <2>2. /\ MovesTo(c, pc) /\ Holding(c)
    BY <2>1, ToEffect DEF Places, Ended
  <2>3. command'[c].pc = pc /\ (command'[c].alone => command[c].alone)
    BY <2>2 DEF MovesTo
  <2>4. c \in Contents /\ c # "torn" /\ Whole(c)
    BY Apart DEF Contents, Whole
  <2>5. Undoes(c) => Undoes(c)'
    BY <1>1, <2>2, NotUndoingYet
  <2>6. HookHasConfig' /\ TornByUndoing' /\ file' \in [Files -> Contents] /\ Minds(c)
    BY <1>1, <1>3, <2>2, <2>4, <2>5, WholeNow
  <2>7. PlaceFits(c)'
    BY <1>1, <2>1, <2>3 DEF PlaceFits
  <2>8. ASSUME Own(c)'  PROVE  Story(c)'
    <3>1. Own(c)
      BY <2>8, <2>3, <1>1 DEF Own
    <3>2. command[c].previous = command[c].found.file
      BY <3>1, <1>1 DEF Stories, Story
    <3>3. file'[Recorder] = c
      BY <3>1, <1>3 DEF Own, HostTyped, Files
    <3> QED
      BY <3>2, <3>3, <2>8, <2>1, <2>2, <1>1, StoryGoesOn
  <2>9. Target[c] = Recorder /\ HoldsSettings(c)' => added \ raced \subseteq command'[c].read
    BY <1>1, <2>2 DEF HeldCopies, HoldsSettings, At, Holding, Active
  <2>10. OthersKept'
    BY <1>1 DEF OthersKept
  <2>11. settings' \in [valid : BOOLEAN, hooks : SUBSET Hooks]
    BY <1>1 DEF HostTyped
  <2>12. StepSound(c, pc)
    BY <1>1, <2>2, <2>6, <2>7, <2>8, <2>9, <2>10, <2>11 DEF StepSound
  <2> QED
    BY <1>1, <2>12, StepKeepsInv
<1> QED
  BY <1>2, <1>3 DEF WriteSecret

LEMMA VerifyKeeps ==
  ASSUME HostInv, NEW c \in Commands, Verify(c)
  PROVE  HostInv'
<1> USE DEF HostInv
<1>1. /\ command[c].pc = "verify" /\ Active(c) /\ Running(c) /\ Kind[c] = "setup"
      /\ UNCHANGED <<file, settings, raced, added>>
  BY DEF Verify, At, Active, Running, Ended, HostTyped, PlaceFits
<1>2. PICK pc \in {"edit", "done"} : To(c, pc) /\ (pc = "edit" => Target[c] = Recorder)
  BY DEF Verify
<1>3. MovesTo(c, pc) /\ (pc \notin Ended => Holding(c))
  BY <1>2, ToEffect DEF Places, Ended
<1>4. command'[c].pc = pc /\ (command'[c].alone => command[c].alone)
  BY <1>3 DEF MovesTo
<1>5. Undoes(c) => Undoes(c)'
  BY <1>1, <1>3, NotUndoingYet
<1>6. PlaceFits(c)'
  BY <1>1, <1>2, <1>4 DEF PlaceFits
<1>7. ASSUME Own(c)'  PROVE  Story(c)'
  <2>1. pc = "edit" /\ Own(c) /\ Holding(c)
    BY <1>7, <1>3, <1>4, <1>1, OverOrNotBegun DEF Own, Ended
  <2>2. command[c].previous = command[c].found.file /\ file[Recorder] = c
    BY <2>1, <1>1 DEF Stories, Story
  <2> QED
    BY <2>1, <2>2, <1>1, <1>3, <1>7, StoryGoesOn
<1>8. Target[c] = Recorder /\ HoldsSettings(c)' => added \ raced \subseteq command'[c].read
  BY <1>1, <1>2, <1>3, <1>4 DEF HeldCopies, HoldsSettings, At, Holding, Active, Ended
<1> QED
  BY <1>1, <1>3, <1>5, <1>6, <1>7, <1>8, CalmStep

LEMMA WithdrawKeeps ==
  ASSUME HostInv, NEW c \in Commands, Withdraw(c)
  PROVE  HostInv'
<1> USE DEF HostInv
<1>1. /\ command[c].pc = "verify" /\ Active(c) /\ Running(c) /\ Kind[c] = "setup"
      /\ UNCHANGED <<settings, raced, added>>
  BY DEF Withdraw, At, Active, Running, Ended, HostTyped, PlaceFits
<1>2. AfterFailure(c) \in {"restore", "failed"}
  BY DEF AfterFailure
<1>3. PICK pc \in {"restore", "failed"} :
        To(c, pc) /\ (pc = "restore" <=> Target[c] = Recorder)
  BY <1>2 DEF AfterFailure, Withdraw
<1>4. CASE file' = file
  BY <1>1, <1>3, <1>4, FailKeeps
<1>5. CASE file' # file
  <2>1. PICK x \in {"absent"} : file' = [file EXCEPT ![Target[c]] = x]
    BY <1>5 DEF Withdraw
  <2>2. MovesTo(c, pc) /\ (pc \notin Ended => Holding(c))
    BY <1>3, ToEffect DEF Places, Ended
  <2>3. command'[c].pc = pc /\ (command'[c].alone => command[c].alone)
    BY <2>2 DEF MovesTo
  <2>4. Undoes(c) => Undoes(c)'
    BY <1>1, <2>2, NotUndoingYet
  <2>5. x \in Contents /\ x # "torn"
    BY DEF Contents
  <2>6. Target[c] = Recorder => Undoes(c)'
    BY <1>1, <1>3, <2>3 DEF Undoes
  <2>7. HookHasConfig' /\ TornByUndoing' /\ file' \in [Files -> Contents] /\ Minds(c)
    BY <1>1, <2>1, <2>2, <2>4, <2>5, <2>6, WholeNow
  <2>8. PlaceFits(c)'
    BY <1>1, <1>3, <2>3 DEF PlaceFits
  <2>9. ASSUME Own(c)'  PROVE  Story(c)'
    <3>1. pc = "restore" /\ Own(c) /\ Holding(c)
      BY <2>9, <2>2, <2>3, <1>1, OverOrNotBegun DEF Own, Ended
    <3>2. command[c].previous = command[c].found.file
      BY <3>1, <1>1 DEF Stories, Story
    <3> QED
      BY <3>1, <3>2, <2>2, <2>9, <1>1, StoryGoesOn
  <2>10. ~HoldsSettings(c)'
    BY <2>3 DEF HoldsSettings, At
  <2>11. OthersKept' /\ settings' \in [valid : BOOLEAN, hooks : SUBSET Hooks]
    BY <1>1 DEF OthersKept, HostTyped
  <2>12. StepSound(c, pc)
    BY <1>1, <2>2, <2>7, <2>8, <2>9, <2>10, <2>11 DEF StepSound
  <2> QED
    BY <1>1, <2>12, StepKeepsInv
<1> QED
  BY <1>4, <1>5

\* A setup puts back what it found, or begins to: the file may be gone, or in
\* pieces, but then the hooks are not there, or it is not done yet, or it found
\* damage, or was not alone.
LEMMA UndoneIsSound ==
  ASSUME HostInv, NEW c \in Commands, command[c].alive, NEW pc, MovesTo(c, pc),
         command[c].pc \in {"restore", "rewrite"}
  PROVE  \/ Undoes(c)' \/ Damage
         \/ command[c].previous = "absent" /\ settings.hooks \cap Vexic = {}
         \/ Whole(command[c].previous)
<1> USE DEF HostInv
<1>1. Target[c] = Recorder /\ Kind[c] = "setup" /\ Running(c)
  BY DEF HostTyped, PlaceFits, Running, Ended
<1>2. CASE ~command'[c].alone
  BY <1>1, <1>2 DEF Undoes
<1>3. CASE command[c].alone
  <2>1. Story(c)
    BY <1>1, <1>3 DEF Own, Stories
  <2> QED
    BY <2>1 DEF Story, Sound, Whole
<1> QED
  BY <1>2, <1>3 DEF MovesTo

LEMMA RestoreKeeps ==
  ASSUME HostInv, NEW c \in Commands, Restore(c) \/ Rewrite(c)
  PROVE  HostInv'
<1> USE DEF HostInv
<1>1. /\ command[c].pc \in {"restore", "rewrite"} /\ command[c].alive /\ Active(c)
      /\ Running(c) /\ Kind[c] = "setup" /\ Target[c] = Recorder
      /\ UNCHANGED <<settings, raced, added>>
  BY DEF Restore, Rewrite, At, Active, Running, Ended, HostTyped, PlaceFits
<1>2. command[c].previous \in Contents
  BY CommandFields DEF HostTyped
<1>3. PICK x \in Contents, pc \in {"rewrite", "failed"} :
        /\ To(c, pc) /\ file' = [file EXCEPT ![Target[c]] = x]
        /\ pc = "failed" => x = command[c].previous
        /\ pc = "rewrite" => command[c].pc = "restore"
  <2>1. CASE Restore(c) /\ command[c].previous = "absent"
    <3>1. PICK pc \in {"failed"} : To(c, pc)
      BY <2>1 DEF Restore
    <3> QED
      BY <3>1, <2>1, <1>2 DEF Restore
  <2>2. CASE Restore(c) /\ command[c].previous # "absent"
    <3>1. PICK pc \in {"rewrite"} : To(c, pc)
      BY <2>2 DEF Restore
    <3>2. PICK x \in {"torn"} : file' = [file EXCEPT ![Target[c]] = x]
      BY <2>2 DEF Restore
    <3> QED
      BY <3>1, <3>2, <2>2 DEF Restore, At, Contents
  <2>3. CASE Rewrite(c)
    <3>1. PICK pc \in {"failed"} : To(c, pc)
      BY <2>3 DEF Rewrite
    <3> QED
      BY <3>1, <2>3, <1>2 DEF Rewrite
  <2> QED
    BY <2>1, <2>2, <2>3
<1>4. MovesTo(c, pc) /\ (pc \notin Ended => Holding(c))
  BY <1>3, ToEffect DEF Places, Ended
<1>5. command'[c].pc = pc /\ (command'[c].alone => command[c].alone)
  BY <1>4 DEF MovesTo
<1>6. pc = "rewrite" => Undoes(c)'
  BY <1>1, <1>5 DEF Undoes
<1>7. \/ Whole(x) \/ Undoes(c)' \/ Damage
      \/ x = "absent" /\ settings.hooks \cap Vexic = {}
  BY <1>1, <1>3, <1>4, <1>6, UndoneIsSound
<1>8. HookHasConfig' /\ TornByUndoing' /\ file' \in [Files -> Contents] /\ Minds(c)
  BY <1>1, <1>3, <1>4, <1>7, WholeNow
<1>9. PlaceFits(c)'
  BY <1>1, <1>5 DEF PlaceFits
<1>10. ASSUME Own(c)'  PROVE  Story(c)'
  <2>1. pc = "rewrite" /\ Own(c) /\ Holding(c)
    BY <1>10, <1>4, <1>5, <1>1, OverOrNotBegun DEF Own, Ended
  <2>2. command[c].previous = command[c].found.file
    BY <2>1, <1>3 DEF Stories, Story
  <2> QED
    BY <2>1, <2>2, <1>4, <1>10, <1>1, StoryGoesOn
<1>11. ~HoldsSettings(c)'
  BY <1>5 DEF HoldsSettings, At
<1>12. OthersKept' /\ settings' \in [valid : BOOLEAN, hooks : SUBSET Hooks]
  BY <1>1 DEF OthersKept, HostTyped
<1>13. StepSound(c, pc)
  BY <1>1, <1>4, <1>8, <1>9, <1>10, <1>11, <1>12 DEF StepSound
<1> QED
  BY <1>1, <1>13, StepKeepsInv

LEMMA RestoreFailsKeeps ==
  ASSUME HostInv, NEW c \in Commands, RestoreFails(c)
  PROVE  HostInv'
<1> USE DEF HostInv
<1>1. /\ command[c].pc \in {"restore", "rewrite"} /\ Active(c)
      /\ Kind[c] = "setup" /\ Target[c] = Recorder
      /\ UNCHANGED <<file, settings, raced, added>>
  BY DEF RestoreFails, At, Active, Ended, HostTyped, PlaceFits
<1>2. PICK pc \in {"unrestored"} : To(c, pc)
  BY DEF RestoreFails
<1>3. MovesTo(c, pc) /\ command'[c].pc = pc
  BY <1>2, ToEffect DEF Places, Ended, MovesTo
<1>4. Undoes(c)' /\ PlaceFits(c)'
  BY <1>1, <1>2, <1>3 DEF Undoes, PlaceFits
<1>5. ~Own(c)' /\ ~HoldsSettings(c)'
  BY <1>3, OverOrNotBegun DEF Ended
<1> QED
  BY <1>1, <1>3, <1>4, <1>5, CalmStep

LEMMA EditKeeps ==
  ASSUME HostInv, NEW c \in Commands, EditSettings(c)
  PROVE  HostInv'
<1> USE DEF HostInv
<1>1. /\ command[c].pc = "edit" /\ command[c].alive /\ Active(c) /\ Running(c)
      /\ Target[c] = Recorder /\ UNCHANGED <<file, raced, added>>
  BY DEF EditSettings, At, Active, Running, Ended, HostTyped, PlaceFits
<1>2. Kind[c] \in {"setup", "remove"}
  BY HostAssumption DEF HostAssumption
<1>3. CASE settings' = [valid |-> TRUE, hooks |-> Edited(c)] /\ To(c, "done")
  <2>1. PICK pc \in {"done"} : To(c, pc)
    BY <1>3
  <2>2. MovesTo(c, pc) /\ pc \in Ended
    BY <2>1, ToEffect DEF Places, Ended
  <2>3. command'[c].pc = pc /\ command'[c].alone = (command[c].alone /\ Rivals(c) = {})
    BY <2>2 DEF MovesTo
  <2>4. command[c].read \subseteq Hooks
    BY CommandFields DEF HostTyped
  <2>5. settings' \in [valid : BOOLEAN, hooks : SUBSET Hooks]
    BY <1>3, <2>4 DEF Edited, WithoutVexicHook, Hooks
  <2>6. Undoes(c) => Undoes(c)'
    BY <1>1, <2>2, NotUndoingYet
  <2>7. (\E d \in Commands : Undoes(d)) => \E d \in Commands : Undoes(d)'
    BY <1>1, <2>2, <2>6, TroubleStays
  <2>8. TornByUndoing'
    BY <2>7, <1>1 DEF TornByUndoing, Undoes
  <2>9. settings'.hooks \cap Vexic # {} =>
          Whole(file[Recorder]) \/ \E d \in Commands : Undoes(d)'
    <3>1. Kind[c] # "setup" => settings'.hooks \cap Vexic = {}
      BY <1>3 DEF Edited, WithoutVexicHook
    <3>2. CASE Kind[c] = "setup" /\ ~command'[c].alone
      BY <3>2, <1>1 DEF Undoes
    <3>3. CASE Kind[c] = "setup" /\ command'[c].alone
      <4>1. Story(c)
        BY <3>3, <2>3, <1>1 DEF Own, Stories
      <4>2. file[Recorder] = c
        BY <4>1, <1>1 DEF Story
      <4> QED
        BY <4>2, Apart DEF Whole
    <3> QED
      BY <3>1, <3>2, <3>3
  <2>10. HookHasConfig'
    BY <2>9, <1>1 DEF HookHasConfig, Undoes, Whole
  <2>11. OthersKept'
    <3>1. added \ raced \subseteq command[c].read
      BY <1>1 DEF HeldCopies, HoldsSettings, At
    <3> QED
      BY <3>1, <1>1, <1>3, Apart DEF OthersKept, Edited, WithoutVexicHook, HostTyped
  <2>12. PlaceFits(c)' /\ ~Own(c)' /\ ~HoldsSettings(c)'
    BY <2>1, <2>2, <2>3, OverOrNotBegun DEF PlaceFits
  <2>13. Minds(c) /\ file' \in [Files -> Contents]
    BY <1>1 DEF Minds, HostTyped
  <2>14. StepSound(c, pc)
    BY <1>1, <2>2, <2>5, <2>8, <2>10, <2>11, <2>12, <2>13 DEF StepSound
  <2> QED
    BY <1>1, <2>14, StepKeepsInv
<1>4. CASE UNCHANGED settings /\ Kind[c] = "remove"
  <2>1. PICK pc \in {"done", "failed"} : To(c, pc)
    BY <1>4 DEF EditSettings
  <2>2. MovesTo(c, pc) /\ pc \in Ended
    BY <2>1, ToEffect DEF Places, Ended
  <2>3. Undoes(c) => Undoes(c)'
    BY <1>1, <2>2, NotUndoingYet
  <2>4. PlaceFits(c)' /\ ~Own(c)' /\ ~HoldsSettings(c)'
    BY <2>1, <2>2, OverOrNotBegun DEF PlaceFits, MovesTo
  <2> QED
    BY <1>1, <1>4, <2>2, <2>3, <2>4, CalmStep
<1>5. CASE UNCHANGED settings /\ Kind[c] = "setup" /\ To(c, "restore")
  <2>1. PICK pc \in {"restore"} : To(c, pc)
    BY <1>5
  <2> QED
    BY <2>1, <1>1, <1>5, FailKeeps
<1> QED
  BY <1>2, <1>3, <1>4, <1>5 DEF EditSettings

LEMMA RemoveKeeps ==
  ASSUME HostInv, NEW c \in Commands, Remove(c)
  PROVE  HostInv'
<1> USE DEF HostInv
<1>1. /\ command[c].pc = "start" /\ Active(c) /\ Kind[c] = "remove"
      /\ UNCHANGED <<settings, raced, added>>
  BY DEF Remove, At, Active, Ended
<1>2. PICK pc \in {"load", "done", "failed"} :
        /\ Begins(c, pc) /\ (pc = "load" => Target[c] = Recorder)
        /\ \/ UNCHANGED file
           \/ Target[c] # Recorder /\ file' = [file EXCEPT ![Target[c]] = "absent"]
  BY DEF Remove
<1>3. MovesTo(c, pc)
  BY <1>2, BeginsEffect DEF Places, Ended
<1>4. command'[c].pc = pc
  BY <1>3 DEF MovesTo
<1>5. Undoes(c) => Undoes(c)'
  BY <1>1, <1>3, NotUndoingYet
<1>6. PlaceFits(c)' /\ ~Own(c)' /\ ~HoldsSettings(c)'
  BY <1>1, <1>2, <1>4 DEF PlaceFits, Own, HoldsSettings, At
<1>7. CASE UNCHANGED file
  BY <1>1, <1>3, <1>5, <1>6, <1>7, CalmStep
<1>8. CASE Target[c] # Recorder /\ file' = [file EXCEPT ![Target[c]] = "absent"]
  <2>1. PICK x \in {"absent"} : file' = [file EXCEPT ![Target[c]] = x]
    BY <1>8
  <2>2. x \in Contents /\ x # "torn"
    BY DEF Contents
  <2>3. HookHasConfig' /\ TornByUndoing' /\ file' \in [Files -> Contents] /\ Minds(c)
    BY <1>1, <1>3, <1>5, <1>8, <2>1, <2>2, WholeNow
  <2>4. OthersKept' /\ settings' \in [valid : BOOLEAN, hooks : SUBSET Hooks]
    BY <1>1 DEF OthersKept, HostTyped
  <2>5. StepSound(c, pc)
    BY <1>1, <1>3, <1>6, <2>3, <2>4 DEF StepSound
  <2> QED
    BY <1>1, <2>5, StepKeepsInv
<1> QED
  BY <1>2, <1>7, <1>8

LEMMA DiesEffect ==
  ASSUME HostTyped, NEW c \in Commands, Dies(c)
  PROVE  /\ command' \in [Commands -> CommandType]
         /\ \A d \in Commands \ {c} : command'[d] = command[d]
         /\ command'[c].pc = command[c].pc /\ ~command'[c].alive
         /\ command'[c].alone = command[c].alone
<1> DEFINE dead == [command[c] EXCEPT !.alive = FALSE]
           left == [Ready EXCEPT !.pc = dead.pc, !.alone = dead.alone, !.alive = dead.alive]
<1>1. command' = [command EXCEPT ![c] = left]
  BY DEF Dies, Left
<1>2. command[c] \in CommandType
  BY DEF HostTyped
<1>3. dead \in CommandType /\ dead.pc = command[c].pc /\ dead.alive = FALSE
        /\ dead.alone = command[c].alone
  BY <1>2 DEF CommandType
<1> HIDE DEF dead
<1>4. dead.pc \in Places /\ dead.alive \in BOOLEAN /\ dead.alone \in BOOLEAN
  BY <1>3, CommandFields
<1>5. left \in CommandType /\ left.pc = dead.pc /\ left.alive = dead.alive
        /\ left.alone = dead.alone
  BY <1>4, ReadyTyped DEF CommandType
<1> HIDE DEF left
<1> QED
  BY <1>1, <1>3, <1>5 DEF HostTyped

LEMMA DiesKeeps ==
  ASSUME HostInv, NEW c \in Commands, Dies(c)
  PROVE  HostInv'
<1> USE DEF HostInv
<1>1. /\ command' \in [Commands -> CommandType]
      /\ \A d \in Commands \ {c} : command'[d] = command[d]
      /\ command'[c].pc = command[c].pc /\ ~command'[c].alive
      /\ command'[c].alone = command[c].alone
  BY DiesEffect
<1>2. UNCHANGED <<file, settings, raced, added>>
  BY DEF Dies
<1>3. ~Running(c)' /\ ~Own(c)' /\ ~HoldsSettings(c)'
  BY <1>1 DEF Running, Own, HoldsSettings, At
<1>4. ASSUME NEW d \in Commands
      PROVE  /\ Running(d)' => Running(d) /\ d # c
             /\ Undoes(d) => Undoes(d)'
             /\ Wrecked(d) => Wrecked(d)'
  BY <1>1, <1>3 DEF Running, Undoes, Wrecked
<1>5. HostTyped'
  BY <1>1, <1>2 DEF HostTyped, PlaceFits
<1>6. Met'
  BY <1>1, <1>4 DEF Met
<1>7. Damage => Damage'
  BY <1>4 DEF Damage, Wrecked
<1>8. Stories'
  <2> SUFFICES ASSUME NEW d \in Commands, Own(d)'  PROVE  Story(d)'
    BY DEF Stories
  <2>1. d # c /\ command'[d] = command[d]
    BY <1>1, <1>3
  <2>2. Story(d)
    BY <2>1 DEF Own, Running, Stories
  <2> QED
    BY <2>1, <2>2, <1>2, <1>7 DEF Story
<1>9. (\E d \in Commands : Undoes(d)) => \E d \in Commands : Undoes(d)'
  BY <1>4
<1>10. HookHasConfig'
  BY <1>2, <1>9 DEF HookHasConfig, Undoes
<1>11. TornByUndoing'
  BY <1>2, <1>9 DEF TornByUndoing, Undoes
<1>12. HeldCopies' /\ OthersKept'
  BY <1>1, <1>2, <1>3 DEF HeldCopies, OthersKept, HoldsSettings, At
<1> QED
  BY <1>5, <1>6, <1>8, <1>10, <1>11, <1>12

\* Others edit the settings, and leave Vexic's hooks where they are.
LEMMA OthersKeep ==
  ASSUME HostInv, (\E h \in Others : OtherAdds(h)) \/ OtherEdits
  PROVE  HostInv'
<1> USE DEF HostInv
<1>1. UNCHANGED <<file, command>>
  BY DEF OtherAdds, OtherEdits
<1>2. /\ settings' \in [valid : BOOLEAN, hooks : SUBSET Hooks]
      /\ settings'.hooks \cap Vexic = settings.hooks \cap Vexic
      /\ added' \subseteq Others /\ settings.hooks \subseteq settings'.hooks
  <2>1. CASE OtherEdits
    BY <2>1 DEF OtherEdits, HostTyped
  <2>2. ASSUME NEW h \in Others, OtherAdds(h)
        PROVE  /\ settings' \in [valid : BOOLEAN, hooks : SUBSET Hooks]
               /\ settings'.hooks \cap Vexic = settings.hooks \cap Vexic
               /\ added' \subseteq Others /\ settings.hooks \subseteq settings'.hooks
    BY <2>2, Apart DEF OtherAdds, HostTyped, Hooks
  <2> QED
    BY <2>1, <2>2
<1>3. HostTyped' /\ Met' /\ Damage' = Damage
  BY <1>1, <1>2 DEF HostTyped, Met, PlaceFits, Running, Damage, Wrecked
<1>4. Stories'
  BY <1>1, <1>2, <1>3 DEF Stories, Own, Running, Story
<1>5. HookHasConfig' /\ TornByUndoing'
  BY <1>1, <1>2 DEF HookHasConfig, TornByUndoing, Undoes
<1>6. OthersKept'
  BY <1>2 DEF OthersKept, OtherAdds, OtherEdits
<1>7. HeldCopies'
  <2> SUFFICES ASSUME NEW c \in Commands, Target[c] = Recorder, HoldsSettings(c)
               PROVE  added' \ raced' \subseteq command[c].read
    BY <1>1 DEF HeldCopies, HoldsSettings, At
  <2>1. added \ raced \subseteq command[c].read
    BY DEF HeldCopies
  <2> QED
    BY <2>1 DEF OtherAdds, OtherEdits
<1> QED
  BY <1>3, <1>4, <1>5, <1>6, <1>7

LEMMA HostStepKeeps ==
  ASSUME HostInv, HostNext
  PROVE  HostInv'
<1>1. ASSUME NEW c \in Commands, CommandNext(c)
      PROVE  HostInv'
  BY <1>1, ExchangeKeeps, LoadKeeps, PreviousKeeps, WriteKeeps, VerifyKeeps, WithdrawKeeps,
     RestoreKeeps, RestoreFailsKeeps, EditKeeps, RemoveKeeps, DiesKeeps DEF CommandNext
<1> QED
  BY <1>1, OthersKeep DEF HostNext

LEMMA HostStutter ==
  ASSUME HostInv, UNCHANGED hostVars
  PROVE  HostInv'
<1> USE DEF HostInv, hostVars
<1>1. HostTyped' /\ Met'
  BY DEF HostTyped, PlaceFits, Met, Running
<1>2. Stories'
  BY DEF Stories, Own, Running, Story, Damage, Wrecked
<1>3. HookHasConfig' /\ TornByUndoing'
  BY DEF HookHasConfig, TornByUndoing, Undoes
<1>4. HeldCopies' /\ OthersKept'
  BY DEF HeldCopies, HoldsSettings, At, OthersKept
<1> QED
  BY <1>1, <1>2, <1>3, <1>4

LEMMA HostStarts ==
  ASSUME HostInit
  PROVE  HostInv
<1>1. PICK hooked \in BOOLEAN :
        /\ file = [f \in Files |-> IF hooked /\ f = Recorder THEN "old" ELSE "absent"]
        /\ settings = [valid |-> TRUE, hooks |-> IF hooked THEN Vexic ELSE {}]
  BY DEF HostInit
<1>2. \A c \in Commands : command[c] = Ready
  BY DEF HostInit
<1>3. Recorder \in Files
  BY DEF Files
<1>4. \A c \in Commands : command[c].pc = "start" /\ command[c].alone
  BY <1>2, ReadyTyped
<1>5. HostTyped
  <2>1. file \in [Files -> Contents]
    BY <1>1 DEF Contents
  <2>2. settings \in [valid : BOOLEAN, hooks : SUBSET Hooks]
    BY <1>1 DEF Hooks
  <2>3. command \in [Commands -> CommandType]
    BY ReadyTyped DEF HostInit
  <2> QED
    BY <2>1, <2>2, <2>3, <1>4 DEF HostTyped, PlaceFits, HostInit
<1>6. Met /\ Stories
  BY <1>4 DEF Met, Stories, Own, Running
<1>7. file[Recorder] = IF hooked THEN "old" ELSE "absent"
  BY <1>1, <1>3
<1>8. HookHasConfig
  <2>1. settings.hooks \cap Vexic # {} => Whole(file[Recorder])
    BY <1>1, <1>7 DEF Whole
  <2>2. \A f \in Files \ {Recorder} : file[f] # "torn"
    BY <1>1
  <2> QED
    BY <2>1, <2>2 DEF HookHasConfig
<1>9. TornByUndoing
  BY <1>7 DEF TornByUndoing
<1>10. HeldCopies /\ OthersKept
  BY DEF HeldCopies, OthersKept, HostInit
<1> QED
  BY <1>5, <1>6, <1>8, <1>9, <1>10 DEF HostInv

-------------------------------------------------------------------------------
(* A setup does all or nothing *)

-------------------------------------------------------------------------------
(* A setup does all or nothing *)

LEMMA GoesAlone ==
  ASSUME HostTyped, NEW d \in Commands, NEW c \in Commands, c # d, NEW r, Goes(d, r)
  PROVE  command'[c].pc = command[c].pc
<1> DEFINE b == command[c].alone /\ c \notin Rivals(d)
<1>1. command'[c] = [command[c] EXCEPT !.alone = b]
  BY DEF Goes
<1>2. command[c] \in CommandType
  BY DEF HostTyped
<1> HIDE DEF b
<1> QED
  BY <1>1, <1>2 DEF CommandType

\* Another command's step does not end this one.
LEMMA OnlyItself ==
  ASSUME HostTyped, NEW d \in Commands, CommandNext(d), NEW c \in Commands, c # d
  PROVE  command'[c].pc = command[c].pc
<1>1. ASSUME NEW pc, To(d, pc) \/ Begins(d, pc)
      PROVE  command'[c].pc = command[c].pc
  BY <1>1, GoesAlone DEF To, Begins
<1>2. CASE Dies(d)
  BY <1>2, DiesEffect
<1>3. CASE LoadSettings(d) \/ ReadPrevious(d)
  BY <1>3, <1>1, GoesAlone DEF LoadSettings, ReadPrevious
<1>4. CASE Exchange(d) \/ Remove(d)
  BY <1>4, <1>1 DEF Exchange, Remove
<1>5. CASE \/ WriteSecret(d) \/ Verify(d) \/ Withdraw(d) \/ Restore(d) \/ Rewrite(d)
           \/ RestoreFails(d) \/ EditSettings(d)
  BY <1>5, <1>1 DEF WriteSecret, Verify, Withdraw, Restore, Rewrite, RestoreFails, EditSettings
<1> QED
  BY <1>2, <1>3, <1>4, <1>5 DEF CommandNext

\* A place a command goes to is where it is then.
LEMMA Arrives ==
  ASSUME HostTyped, NEW c \in Commands, NEW pc \in Places, To(c, pc)
  PROVE  command'[c].pc = pc
  BY ToEffect DEF MovesTo

LEMMA SetupOutcome ==
  ASSUME HostInv, NEW c \in Commands, CommandNext(c), Own(c)
  PROVE  /\ command'[c].pc = "done" => Succeeded(c)
         /\ command'[c].pc = "failed" => Untouched(c)
<1> USE DEF HostInv
<1>1. Story(c) /\ Kind[c] = "setup" /\ Target[c] = Recorder /\ command[c].pc \notin {"start"}
  BY DEF Own, Running, Stories
<1>2. PlaceFits(c)
  BY DEF HostTyped
<1>3. {"done", "failed", "restore", "rewrite", "edit", "verify", "unrestored", "previous"}
        \subseteq Places
  BY DEF Places, Ended
<1>4. Target[c] \in Files
  BY DEF Files
<1>5. CASE LoadSettings(c)
  <2>1. CASE To(c, "failed")
    BY <2>1, <1>5, <1>1, <1>3, Arrives DEF LoadSettings, At, Story, Untouched
  <2>2. CASE ~To(c, "failed")
    <3>1. PICK pc \in {"previous"} :
            Goes(c, [command[c] EXCEPT !.read = settings.hooks, !.pc = pc])
      BY <2>2, <1>5, <1>1 DEF LoadSettings
    <3>2. command'[c].pc = pc
      BY <3>1, <1>3, LoadEffect DEF MovesTo
    <3> QED
      BY <3>2
  <2> QED
    BY <2>1, <2>2
<1>6. CASE ReadPrevious(c)
  <2>1. CASE To(c, "failed")
    BY <2>1, <1>6, <1>1, <1>3, Arrives DEF ReadPrevious, At, Story, Untouched
  <2>2. CASE ~To(c, "failed")
    <3>1. PICK pc \in {"write"} :
            Goes(c, [command[c] EXCEPT !.previous = file[Target[c]], !.pc = pc])
      BY <2>2, <1>6, <1>1 DEF ReadPrevious
    <3>2. command'[c].pc = pc
      BY <3>1, PreviousEffect DEF MovesTo, Places
    <3> QED
      BY <3>2
  <2> QED
    BY <2>1, <2>2
<1>7. CASE WriteSecret(c) \/ Withdraw(c) \/ Verify(c)
  <2>1. \E pc \in {"verify", "restore", "edit"} : To(c, pc)
    BY <1>7, <1>1 DEF WriteSecret, Withdraw, Verify, AfterFailure
  <2> QED
    BY <2>1, <1>3, Arrives
<1>8. CASE Restore(c)
  <2>1. command[c].pc = "restore"
    BY <1>8 DEF Restore, At
  <2>2. CASE command[c].previous = "absent"
    <3>1. file'[Recorder] = "absent" /\ settings' = settings /\ To(c, "failed")
      BY <2>2, <1>8, <1>1, <1>4 DEF Restore, HostTyped
    <3>2. command'[c].pc = "failed"
      BY <3>1, <1>3, Arrives
    <3> QED
      BY <2>1, <2>2, <3>1, <3>2, <1>1 DEF Story, Untouched
  <2>3. CASE command[c].previous # "absent"
    <3>1. To(c, "rewrite")
      BY <2>3, <1>8 DEF Restore
    <3> QED
      BY <3>1, <1>3, Arrives
  <2> QED
    BY <2>2, <2>3
<1>9. CASE Rewrite(c)
  <2>1. command[c].pc = "rewrite"
    BY <1>9 DEF Rewrite, At
  <2>2. file'[Recorder] = command[c].previous /\ settings' = settings /\ To(c, "failed")
    BY <1>9, <1>1, <1>4 DEF Rewrite, HostTyped
  <2>3. command'[c].pc = "failed"
    BY <2>2, <1>3, Arrives
  <2> QED
    BY <2>1, <2>2, <2>3, <1>1 DEF Story, Untouched
<1>10. CASE RestoreFails(c)
  <2>1. To(c, "unrestored")
    BY <1>10 DEF RestoreFails
  <2> QED
    BY <2>1, <1>3, Arrives
<1>11. CASE EditSettings(c)
  <2>1. CASE To(c, "restore")
    BY <2>1, <1>3, Arrives
  <2>2. CASE settings' = [valid |-> TRUE, hooks |-> Edited(c)] /\ To(c, "done")
    <3>1. command'[c].pc = "done"
      BY <2>2, <1>3, Arrives
    <3>2. Vexic \subseteq settings'.hooks
      BY <2>2, <1>1 DEF Edited
    <3>3. file'[Recorder] = c
      BY <1>11, <1>1 DEF EditSettings, At, Story
    <3> QED
      BY <3>1, <3>2, <3>3 DEF Succeeded
  <2> QED
    BY <2>1, <2>2, <1>11, <1>1 DEF EditSettings
<1>12. CASE Dies(c)
  <2>1. command'[c].pc = command[c].pc
    BY <1>12, DiesEffect
  <2> QED
    BY <2>1, <1>1 DEF Own, Running, Ended
<1>13. CASE Exchange(c) \/ Remove(c)
  BY <1>13, <1>1 DEF Exchange, Remove, At
<1> QED
  BY <1>5, <1>6, <1>7, <1>8, <1>9, <1>10, <1>11, <1>12, <1>13 DEF CommandNext

\* A command that is alone after a step was so before.
LEMMA AloneBefore ==
  ASSUME HostTyped, NEW c \in Commands, CommandNext(c), Running(c), command'[c].alone
  PROVE  command[c].alone
<1>2. CASE Dies(c)
  BY <1>2, DiesEffect
<1>3. ASSUME NEW pc \in Places, To(c, pc)
      PROVE  command[c].alone
  BY <1>3, ToEffect DEF MovesTo
<1>4. CASE LoadSettings(c)
  <2>1. CASE To(c, "failed")
    BY <2>1, <1>3 DEF Places, Ended
  <2>2. CASE ~To(c, "failed")
    <3>1. PICK pc \in {"previous", "edit"} :
            Goes(c, [command[c] EXCEPT !.read = settings.hooks, !.pc = pc])
      BY <2>2, <1>4 DEF LoadSettings
    <3> QED
      BY <3>1, LoadEffect DEF MovesTo, Places
  <2> QED
    BY <2>1, <2>2
<1>5. CASE ReadPrevious(c)
  <2>1. CASE To(c, "failed")
    BY <2>1, <1>3 DEF Places, Ended
  <2>2. CASE ~To(c, "failed")
    <3>1. PICK pc \in {"write"} :
            Goes(c, [command[c] EXCEPT !.previous = file[Target[c]], !.pc = pc])
      BY <2>2, <1>5 DEF ReadPrevious
    <3> QED
      BY <3>1, PreviousEffect DEF MovesTo, Places
  <2> QED
    BY <2>1, <2>2
<1>6. CASE \/ WriteSecret(c) \/ Verify(c) \/ Withdraw(c) \/ Restore(c) \/ Rewrite(c)
           \/ RestoreFails(c) \/ EditSettings(c)
  <2>1. \E pc \in Places : To(c, pc)
    BY <1>6 DEF WriteSecret, Verify, Withdraw, Restore, Rewrite, RestoreFails, EditSettings,
                AfterFailure, Places, Ended
  <2> QED
    BY <2>1, <1>3
<1>7. CASE Exchange(c) \/ Remove(c)
  BY <1>7 DEF Exchange, Remove, At, Running
<1> QED
  BY <1>2, <1>4, <1>5, <1>6, <1>7 DEF CommandNext

LEMMA HostStepAtomic ==
  ASSUME HostInv, HostNext,
         NEW c \in Commands, Kind[c] = "setup", Target[c] = Recorder, Running(c),
         command'[c].alone
  PROVE  /\ command'[c].pc = "done" => Succeeded(c)
         /\ command'[c].pc = "failed" => Untouched(c)
<1> USE DEF HostInv
<1>1. command[c].pc \notin {"done", "failed"}
  BY DEF Running, Ended
<1>2. CASE CommandNext(c)
  BY <1>2, AloneBefore, SetupOutcome DEF Own
<1>3. ASSUME NEW d \in Commands, CommandNext(d), d # c
      PROVE  command'[c].pc = command[c].pc
  BY <1>3, OnlyItself
<1>4. CASE (\E h \in Others : OtherAdds(h)) \/ OtherEdits
  <2>1. command' = command
    BY <1>4 DEF OtherAdds, OtherEdits
  <2> QED
    BY <2>1, <1>1
<1> QED
  BY <1>1, <1>2, <1>3, <1>4 DEF HostNext

-------------------------------------------------------------------------------
(* One prime moves *)

LEMMA Times ==
  /\ Deadline \in Nat /\ FinishBy \in Nat /\ KillAt \in Nat
  /\ Deadline < FinishBy /\ FinishBy < KillAt
  /\ "none" \notin Primes /\ Len(Legs) \in Nat
  /\ \A i \in 1 .. Len(Legs) : Legs[i] \in LegNames
  BY PrimeAssumption DEF PrimeAssumption, LegNames

LEMMA PrimeFields ==
  ASSUME NEW r \in PrimeType
  PROVE  /\ r.elapsed \in Nat /\ r.began \in Nat /\ r.asked \in Nat /\ r.stalled \in Nat
         /\ r.leg \in [LegNames -> {"reading", "stored", "ok", "error"}]
         /\ r.joined \in 0 .. Len(Legs) /\ r.final \subseteq LegNames
         /\ r.reported \in BOOLEAN
  BY DEF PrimeType

\* The clocks of a prime do not move.
SameClocks(r, s) ==
  /\ r.elapsed = s.elapsed /\ r.began = s.began /\ r.asked = s.asked /\ r.stalled = s.stalled
SameTale(r, s) == r.final = s.final /\ r.finisher = s.finisher /\ r.reported = s.reported

LEMMA FreshTyped ==
  /\ Fresh \in PrimeType /\ Fresh.pc = "none" /\ Timely(Fresh) /\ ~Fresh.reported
<1>1. Fresh \in PrimeType
  <2>1. 0 \in 0 .. Len(Legs)
    BY Times
  <2>2. [n \in LegNames |-> "reading"] \in [LegNames -> {"reading", "stored", "ok", "error"}]
    OBVIOUS
  <2> QED
    BY <2>1, <2>2 DEF PrimeType, Fresh
<1>2. Fresh.pc = "none" /\ ~Fresh.reported /\ Fresh.elapsed = 0 /\ Fresh.stalled = 0
  BY DEF Fresh
<1> QED
  BY <1>1, <1>2 DEF Timely

\* What remains to be shown of a step of a prime.
LEMMA PrimeStepKeeps ==
  ASSUME PrimeInv, NEW p \in Primes, NEW r \in PrimeType, Becomes(p, r),
         status' \in [by : Primes \cup {"none"}, phase : {"none", "started", "finished"},
                      legs : SUBSET LegNames],
         status' = status \/ status'.by = p,
         printed' \in [Primes -> SUBSET LegNames],
         \A q \in Primes \ {p} : printed'[q] = printed[q],
         taken' \in {taken, taken \cup {p}},
         Timely(r), Telling(p)'
  PROVE  PrimeInv'
<1> USE DEF PrimeInv
<1>1. prime' \in [Primes -> PrimeType] /\ prime'[p] = r
        /\ \A q \in Primes \ {p} : prime'[q] = prime[q]
  BY DEF Becomes, PrimeTyped
<1>2. PrimeTyped'
  BY <1>1 DEF PrimeTyped
<1>3. \A q \in Primes : Timely(prime'[q])
  BY <1>1
<1>4. ASSUME NEW q \in Primes, q # p
      PROVE  Telling(q)'
  <2>1. Telling(q) /\ prime'[q] = prime[q] /\ printed'[q] = printed[q]
          /\ (q \in taken' <=> q \in taken)
    BY <1>1, <1>4
  <2>2. CASE status' = status
    BY <2>1, <2>2 DEF Telling
  <2>3. CASE status'.by = p
    BY <2>1, <2>3, <1>4 DEF Telling
  <2> QED
    BY <2>2, <2>3
<1>5. \A q \in Primes : Telling(q)'
  BY <1>4
<1> QED
  BY <1>2, <1>3, <1>5 DEF Timely, Telling

\* A step that touches neither what is printed, nor taken, nor the status.
LEMMA QuietPrimeStep ==
  ASSUME PrimeInv, NEW p \in Primes, NEW r \in PrimeType, Becomes(p, r),
         UNCHANGED <<status, printed, taken>>, Timely(r),
         /\ r.pc \in {"none", "boot", "input", "mark", "join", "error"} => printed[p] = {} /\ ~r.reported
         /\ r.pc \in {"print", "finish"} => printed[p] = r.final
         /\ r.pc = "finish" /\ r.finisher = "status" => ~r.reported
         /\ r.pc = "print" => ~r.reported
         /\ status.by = p =>
              /\ r.pc \notin {"none", "boot", "input", "mark"} /\ (r.pc = "exited" => p \in taken)
              /\ status.phase = "started" => ~r.reported
              /\ status.phase = "finished" =>
                   r.pc \in {"finish", "exited", "killed"} /\ status.legs = printed[p]
  PROVE  PrimeInv'
<1>1. prime'[p] = r
  BY DEF Becomes, PrimeInv, PrimeTyped
<1>2. Telling(p)
  BY DEF PrimeInv
<1>3. Telling(p)'
  BY <1>1, <1>2 DEF Telling
<1>4. /\ status' \in [by : Primes \cup {"none"}, phase : {"none", "started", "finished"},
                      legs : SUBSET LegNames]
      /\ printed' \in [Primes -> SUBSET LegNames]
  BY DEF PrimeInv, PrimeTyped
<1> QED
  BY <1>3, <1>4, PrimeStepKeeps

LEMMA FireKeeps ==
  ASSUME PrimeInv, NEW p \in Primes, Fire(p)
  PROVE  PrimeInv'
<1> USE DEF PrimeInv
<1>1. prime[p] \in PrimeType /\ prime[p].pc = "none" /\ Timely(prime[p]) /\ Telling(p)
  BY DEF Fire, Is, PrimeTyped
<1>2. PICK pc \in {"boot"} : Becomes(p, [prime[p] EXCEPT !.pc = pc])
  BY DEF Fire, Step
<1> DEFINE r == [prime[p] EXCEPT !.pc = pc]
<1>3. r \in PrimeType /\ r.pc = pc /\ SameClocks(r, prime[p]) /\ SameTale(r, prime[p])
  BY <1>1 DEF PrimeType, SameClocks, SameTale
<1>4. Becomes(p, r)
  BY <1>2
<1> HIDE DEF r
<1>5. Timely(r)
  BY <1>1, <1>3 DEF Timely, SameClocks
<1> QED
  BY <1>1, <1>3, <1>4, <1>5, QuietPrimeStep DEF Fire, Telling, SameTale

LEMMA SkipKeeps ==
  ASSUME PrimeInv, NEW p \in Primes, Skip(p)
  PROVE  PrimeInv'
<1> USE DEF PrimeInv
<1>1. prime[p].pc = "input" /\ Telling(p)
  BY DEF Skip, Is
<1> DEFINE r == [Fresh EXCEPT !.pc = "exited"]
<1>2. r \in PrimeType /\ r.pc = "exited"
  BY FreshTyped DEF PrimeType
<1>3. Becomes(p, r)
  BY DEF Skip
<1> HIDE DEF r
<1>4. Timely(r)
  BY <1>2 DEF Timely
<1> QED
  BY <1>1, <1>2, <1>3, <1>4, QuietPrimeStep DEF Skip, Telling

LEMMA UpKeeps ==
  ASSUME PrimeInv, NEW p \in Primes, Up(p)
  PROVE  PrimeInv'
<1> USE DEF PrimeInv
<1>1. prime[p] \in PrimeType /\ prime[p].pc = "boot" /\ Timely(prime[p]) /\ Telling(p)
  BY DEF Up, Is, PrimeTyped
<1> DEFINE r == [prime[p] EXCEPT !.pc = "input", !.began = prime[p].elapsed]
<1>2. /\ r \in PrimeType /\ r.pc = "input" /\ r.elapsed = prime[p].elapsed
      /\ r.stalled = prime[p].stalled /\ r.began = prime[p].elapsed
      /\ SameTale(r, prime[p])
  BY <1>1 DEF PrimeType, SameTale
<1>3. Becomes(p, r)
  BY DEF Up
<1> HIDE DEF r
<1>4. Timely(r)
  BY <1>1, <1>2, PrimeFields DEF Timely
<1> QED
  BY <1>1, <1>2, <1>3, <1>4, QuietPrimeStep DEF Up, Telling, SameTale

LEMMA ConfiguredKeeps ==
  ASSUME PrimeInv, NEW p \in Primes, Configured(p)
  PROVE  PrimeInv'
<1> USE DEF PrimeInv
<1>1. prime[p] \in PrimeType /\ prime[p].pc = "input" /\ Timely(prime[p]) /\ Telling(p)
  BY DEF Configured, Is, PrimeTyped
<1> DEFINE r == [prime[p] EXCEPT !.pc = "mark"]
<1>2. r \in PrimeType /\ r.pc = "mark" /\ SameClocks(r, prime[p]) /\ SameTale(r, prime[p])
  BY <1>1 DEF PrimeType, SameClocks, SameTale
<1>3. Becomes(p, r)
  BY DEF Configured, Step
<1> HIDE DEF r
<1>4. Timely(r)
  BY <1>1, <1>2 DEF Timely, SameClocks
<1> QED
  BY <1>1, <1>2, <1>3, <1>4, QuietPrimeStep DEF Configured, Telling, SameTale

LEMMA MarkKeeps ==
  ASSUME PrimeInv, NEW p \in Primes, Mark(p)
  PROVE  PrimeInv'
<1> USE DEF PrimeInv
<1>1. prime[p] \in PrimeType /\ prime[p].pc = "mark" /\ Timely(prime[p]) /\ Telling(p)
  BY DEF Mark, Is, PrimeTyped
<1> DEFINE r == [prime[p] EXCEPT !.pc = "join", !.asked = prime[p].elapsed]
<1>2. /\ r \in PrimeType /\ r.pc = "join" /\ r.elapsed = prime[p].elapsed
      /\ r.stalled = prime[p].stalled /\ r.asked = prime[p].elapsed
      /\ SameTale(r, prime[p])
  BY <1>1 DEF PrimeType, SameTale
<1>3. Becomes(p, r)
  BY DEF Mark
<1> HIDE DEF r
<1>4. Timely(r)
  <2>1. r.elapsed = r.stalled /\ r.asked = r.stalled /\ r.stalled \in Nat
    BY <1>1, <1>2, PrimeFields DEF Timely
  <2> QED
    BY <2>1, <1>2, Times DEF Timely
<1>5. status' \in {status, [by |-> p, phase |-> "started", legs |-> {}]}
        /\ UNCHANGED <<printed, taken>>
  BY DEF Mark
<1>6. prime'[p] = r
  BY <1>3 DEF Becomes, PrimeTyped
<1>7. Telling(p)'
  <2>1. status'.by = p => status'.phase = "started"
    BY <1>1, <1>5 DEF Telling
  <2> QED
    BY <2>1, <1>1, <1>2, <1>5, <1>6 DEF Telling, SameTale
<1>8. /\ status' \in [by : Primes \cup {"none"}, phase : {"none", "started", "finished"},
                      legs : SUBSET LegNames]
      /\ status' = status \/ status'.by = p
      /\ printed' \in [Primes -> SUBSET LegNames]
  BY <1>5 DEF PrimeTyped
<1> QED
  BY <1>2, <1>3, <1>4, <1>5, <1>7, <1>8, PrimeStepKeeps

LEMMA LegKeeps ==
  ASSUME PrimeInv, NEW p \in Primes, NEW n \in LegNames, LegStep(p, n)
  PROVE  PrimeInv'
<1> USE DEF PrimeInv
<1>1. prime[p] \in PrimeType /\ Timely(prime[p]) /\ Telling(p)
  BY DEF PrimeTyped
<1>2. PICK now \in {"stored", "ok", "error"} : Becomes(p, [prime[p] EXCEPT !.leg[n] = now])
  BY DEF LegStep, ReadEnds
<1> DEFINE legs == [prime[p].leg EXCEPT ![n] = now]
           r == [prime[p] EXCEPT !.leg = legs]
<1>3. legs \in [LegNames -> {"reading", "stored", "ok", "error"}]
  BY <1>1, PrimeFields
<1>4. Becomes(p, r)
  BY <1>2
<1> HIDE DEF legs
<1>5. /\ r \in PrimeType /\ r.pc = prime[p].pc /\ SameClocks(r, prime[p])
      /\ SameTale(r, prime[p])
  BY <1>1, <1>3 DEF PrimeType, SameClocks, SameTale
<1> HIDE DEF r
<1>6. Timely(r)
  BY <1>1, <1>5 DEF Timely, SameClocks
<1> QED
  BY <1>1, <1>4, <1>5, <1>6, QuietPrimeStep DEF LegStep, Telling, SameTale

LEMMA JoinKeeps ==
  ASSUME PrimeInv, NEW p \in Primes, Join(p)
  PROVE  PrimeInv'
<1> USE DEF PrimeInv
<1>1. prime[p] \in PrimeType /\ prime[p].pc = "join" /\ Timely(prime[p]) /\ Telling(p)
  BY DEF Join, Is, PrimeTyped
<1> DEFINE next == prime[p].joined + 1
           kept == IF prime[p].leg[Legs[prime[p].joined + 1]] = "ok"
                     THEN prime[p].final \cup {Legs[prime[p].joined + 1]} ELSE prime[p].final
           r == [prime[p] EXCEPT !.joined = next, !.final = kept]
<1>2. prime[p].joined \in 0 .. Len(Legs) /\ prime[p].joined < Len(Legs)
        /\ prime[p].final \subseteq LegNames
  BY <1>1, PrimeFields DEF Join
<1>3. next \in 1 .. Len(Legs)
  BY <1>2, Times
<1>4. next \in 0 .. Len(Legs)
  BY <1>3, Times
<1>5. kept \in SUBSET LegNames
  BY <1>2, <1>3, Times
<1>6. Becomes(p, r)
  BY DEF Join
<1> HIDE DEF next, kept
<1>7. /\ r \in PrimeType /\ r.pc = "join" /\ SameClocks(r, prime[p])
      /\ r.reported = prime[p].reported
  BY <1>1, <1>4, <1>5 DEF PrimeType, SameClocks
<1> HIDE DEF r
<1>8. Timely(r)
  BY <1>1, <1>7 DEF Timely, SameClocks
<1> QED
  BY <1>1, <1>6, <1>7, <1>8, QuietPrimeStep DEF Join, Telling

LEMMA EmitKeeps ==
  ASSUME PrimeInv, NEW p \in Primes, EmitContext(p)
  PROVE  PrimeInv'
<1> USE DEF PrimeInv
<1>1. prime[p] \in PrimeType /\ prime[p].pc = "join" /\ Timely(prime[p]) /\ Telling(p)
  BY DEF EmitContext, Is, PrimeTyped
<1> DEFINE r == [prime[p] EXCEPT !.pc = "print"]
<1>2. /\ r \in PrimeType /\ r.pc = "print" /\ SameClocks(r, prime[p])
      /\ SameTale(r, prime[p])
  BY <1>1 DEF PrimeType, SameClocks, SameTale
<1>3. Becomes(p, r)
  BY DEF EmitContext, Step
<1> HIDE DEF r
<1>4. Timely(r)
  <2>1. r.elapsed <= r.stalled + Deadline
    BY <1>1, <1>2, PrimeFields, Times DEF Timely, SameClocks
  <2> QED
    BY <2>1, <1>2 DEF Timely
<1>5. r.final \subseteq LegNames
  BY <1>2, PrimeFields
<1>6. /\ printed' = [printed EXCEPT ![p] = r.final] /\ UNCHANGED <<status, taken>>
  BY <1>2 DEF EmitContext, Sections, SameTale
<1>7. /\ printed' \in [Primes -> SUBSET LegNames] /\ printed'[p] = r.final
      /\ \A q \in Primes \ {p} : printed'[q] = printed[q]
  BY <1>5, <1>6 DEF PrimeTyped
<1>8. prime'[p] = r
  BY <1>3 DEF Becomes, PrimeTyped
<1>9. Telling(p)'
  BY <1>1, <1>2, <1>6, <1>7, <1>8 DEF Telling, SameTale
<1>10. /\ status' \in [by : Primes \cup {"none"}, phase : {"none", "started", "finished"},
                      legs : SUBSET LegNames]
  BY <1>6 DEF PrimeTyped
<1> QED
  BY <1>2, <1>3, <1>4, <1>6, <1>7, <1>9, <1>10, PrimeStepKeeps

LEMMA RejectKeeps ==
  ASSUME PrimeInv, NEW p \in Primes, Reject(p)
  PROVE  PrimeInv'
<1> USE DEF PrimeInv
<1>1. prime[p] \in PrimeType /\ prime[p].pc = "join" /\ Timely(prime[p]) /\ Telling(p)
  BY DEF Reject, Is, PrimeTyped
<1> DEFINE r == [prime[p] EXCEPT !.pc = "error"]
<1>2. /\ r \in PrimeType /\ r.pc = "error" /\ SameClocks(r, prime[p])
      /\ SameTale(r, prime[p])
  BY <1>1 DEF PrimeType, SameClocks, SameTale
<1>3. Becomes(p, r)
  BY DEF Reject, Step
<1> HIDE DEF r
<1>4. Timely(r)
  <2>1. r.elapsed <= r.stalled + Deadline
    BY <1>1, <1>2, PrimeFields, Times DEF Timely, SameClocks
  <2> QED
    BY <2>1, <1>2 DEF Timely
<1> QED
  BY <1>1, <1>2, <1>3, <1>4, QuietPrimeStep DEF Reject, Telling, SameTale

\* Both last writes: the status is this prime's, or as it was.
LEMMA ReportKeeps ==
  ASSUME PrimeInv, NEW p \in Primes, ReportError(p)
  PROVE  PrimeInv'
<1> USE DEF PrimeInv
<1>1. prime[p] \in PrimeType /\ prime[p].pc = "error" /\ Telling(p)
  BY DEF ReportError, Is, PrimeTyped
<1>2. PICK written \in BOOLEAN :
        /\ status' = IF written THEN Finished(p, {}) ELSE status
        /\ Becomes(p, [prime[p] EXCEPT !.pc = "exited", !.reported = written])
  BY DEF ReportError
<1> DEFINE r == [prime[p] EXCEPT !.pc = "exited", !.reported = written]
<1>3. r \in PrimeType /\ r.pc = "exited" /\ r.reported = written
  BY <1>1 DEF PrimeType
<1>4. Becomes(p, r)
  BY <1>2
<1> HIDE DEF r
<1>5. Timely(r)
  BY <1>3 DEF Timely
<1>6. prime'[p] = r
  BY <1>4 DEF Becomes, PrimeTyped
<1>7. taken' = taken \cup {p} /\ printed' = printed /\ printed[p] = {}
  BY <1>1 DEF ReportError, Telling
<1>8. Telling(p)'
  <2>1. CASE written
    BY <2>1, <1>2, <1>3, <1>6, <1>7 DEF Telling, Finished
  <2>2. CASE ~written
    BY <2>2, <1>1, <1>2, <1>3, <1>6, <1>7 DEF Telling
  <2> QED
    BY <2>1, <2>2
<1>9. /\ status' \in [by : Primes \cup {"none"}, phase : {"none", "started", "finished"},
                      legs : SUBSET LegNames]
      /\ status' = status \/ status'.by = p
      /\ printed' \in [Primes -> SUBSET LegNames]
  BY <1>2, <1>7 DEF PrimeTyped, Finished
<1> QED
  BY <1>3, <1>4, <1>5, <1>7, <1>8, <1>9, PrimeStepKeeps

LEMMA StartFinisherKeeps ==
  ASSUME PrimeInv, NEW p \in Primes, StartFinisher(p)
  PROVE  PrimeInv'
<1> USE DEF PrimeInv
<1>1. prime[p] \in PrimeType /\ prime[p].pc = "print" /\ Timely(prime[p]) /\ Telling(p)
  BY DEF StartFinisher, Is, PrimeTyped
<1> DEFINE r == [prime[p] EXCEPT !.pc = "finish", !.finisher = "status"]
<1>2. /\ r \in PrimeType /\ r.pc = "finish" /\ SameClocks(r, prime[p])
      /\ r.final = prime[p].final /\ r.reported = prime[p].reported
  BY <1>1 DEF PrimeType, SameClocks
<1>3. Becomes(p, r)
  BY DEF StartFinisher
<1> HIDE DEF r
<1>4. Timely(r)
  BY <1>1, <1>2 DEF Timely, SameClocks
<1> QED
  BY <1>1, <1>2, <1>3, <1>4, QuietPrimeStep DEF StartFinisher, Telling

LEMMA WriteFinishedKeeps ==
  ASSUME PrimeInv, NEW p \in Primes, WriteFinished(p)
  PROVE  PrimeInv'
<1> USE DEF PrimeInv
<1>1. /\ prime[p] \in PrimeType /\ prime[p].pc = "finish" /\ prime[p].finisher = "status"
      /\ Timely(prime[p]) /\ Telling(p)
  BY DEF WriteFinished, Is, PrimeTyped
<1>2. PICK written \in BOOLEAN :
        /\ status' = IF written THEN Finished(p, prime[p].final) ELSE status
        /\ Becomes(p, [prime[p] EXCEPT !.finisher = "spawn", !.reported = written])
  BY DEF WriteFinished
<1> DEFINE r == [prime[p] EXCEPT !.finisher = "spawn", !.reported = written]
<1>3. /\ r \in PrimeType /\ r.pc = "finish" /\ r.reported = written /\ r.finisher = "spawn"
      /\ SameClocks(r, prime[p]) /\ r.final = prime[p].final
  BY <1>1 DEF PrimeType, SameClocks
<1>4. Becomes(p, r)
  BY <1>2
<1> HIDE DEF r
<1>5. Timely(r)
  BY <1>1, <1>3 DEF Timely, SameClocks
<1>6. prime'[p] = r
  BY <1>4 DEF Becomes, PrimeTyped
<1>7. UNCHANGED <<taken, printed>> /\ printed[p] = r.final /\ r.final \subseteq LegNames
  BY <1>1, <1>3, PrimeFields DEF WriteFinished, Telling
<1>8. Telling(p)'
  <2>1. CASE written
    BY <2>1, <1>2, <1>3, <1>6, <1>7 DEF Telling, Finished
  <2>2. CASE ~written
    BY <2>2, <1>1, <1>2, <1>3, <1>6, <1>7 DEF Telling
  <2> QED
    BY <2>1, <2>2
<1>9. /\ status' \in [by : Primes \cup {"none"}, phase : {"none", "started", "finished"},
                      legs : SUBSET LegNames]
      /\ status' = status \/ status'.by = p
      /\ printed' \in [Primes -> SUBSET LegNames]
  BY <1>2, <1>3, <1>7 DEF PrimeTyped, Finished
<1> QED
  BY <1>3, <1>4, <1>5, <1>7, <1>8, <1>9, PrimeStepKeeps

LEMMA SpawnKeeps ==
  ASSUME PrimeInv, NEW p \in Primes, SpawnTriggerDream(p)
  PROVE  PrimeInv'
<1> USE DEF PrimeInv
<1>1. prime[p] \in PrimeType /\ prime[p].pc = "finish" /\ Timely(prime[p]) /\ Telling(p)
  BY DEF SpawnTriggerDream, Is, PrimeTyped
<1> DEFINE r == [prime[p] EXCEPT !.finisher = "done"]
<1>2. /\ r \in PrimeType /\ r.pc = "finish" /\ SameClocks(r, prime[p]) /\ r.finisher = "done"
      /\ r.final = prime[p].final /\ r.reported = prime[p].reported
  BY <1>1 DEF PrimeType, SameClocks
<1>3. Becomes(p, r)
  BY DEF SpawnTriggerDream
<1> HIDE DEF r
<1>4. Timely(r)
  BY <1>1, <1>2 DEF Timely, SameClocks
<1> QED
  BY <1>1, <1>2, <1>3, <1>4, QuietPrimeStep DEF SpawnTriggerDream, Telling

LEMMA ExitKeeps ==
  ASSUME PrimeInv, NEW p \in Primes, Exit(p)
  PROVE  PrimeInv'
<1> USE DEF PrimeInv
<1>1. prime[p] \in PrimeType /\ prime[p].pc = "finish" /\ Timely(prime[p]) /\ Telling(p)
  BY DEF Exit, Is, PrimeTyped
<1> DEFINE r == [prime[p] EXCEPT !.pc = "exited"]
<1>2. r \in PrimeType /\ r.pc = "exited" /\ r.reported = prime[p].reported
  BY <1>1 DEF PrimeType
<1>3. Becomes(p, r)
  BY DEF Exit, Step
<1> HIDE DEF r
<1>4. Timely(r)
  BY <1>2 DEF Timely
<1>5. prime'[p] = r
  BY <1>3 DEF Becomes, PrimeTyped
<1>6. UNCHANGED <<status, printed>> /\ taken' = taken \cup {p}
  BY DEF Exit
<1>7. Telling(p)'
  BY <1>1, <1>2, <1>5, <1>6 DEF Telling
<1>8. /\ status' \in [by : Primes \cup {"none"}, phase : {"none", "started", "finished"},
                      legs : SUBSET LegNames]
      /\ printed' \in [Primes -> SUBSET LegNames]
  BY <1>6 DEF PrimeTyped
<1> QED
  BY <1>2, <1>3, <1>4, <1>6, <1>7, <1>8, PrimeStepKeeps

\* A moment more on both clocks.
LEMMA Later ==
  \A e, s, b, d \in Nat : /\ e = s => e + 1 = s + 1
                          /\ e <= s + d => e + 1 <= s + 1 + d
                          /\ b <= e => b <= e + 1
  OBVIOUS

\* A wait that has not run out lasts a moment more.
LEMMA Within == \A e, a, d \in Nat : e - a < d => e + 1 <= a + d
  OBVIOUS

LEMMA NotYet == \A e, b, f \in Nat : ~(e - b >= f) => e + 1 <= b + f
  OBVIOUS

LEMMA Reaches == \A e, a, b, d \in Nat : e <= a + d /\ a <= b => e <= b + d
  OBVIOUS

LEMMA TickKeeps ==
  ASSUME PrimeInv, NEW p \in Primes, Tick(p)
  PROVE  PrimeInv'
<1> USE DEF PrimeInv
<1>1. prime[p] \in PrimeType /\ Timely(prime[p]) /\ Telling(p)
  BY DEF PrimeTyped
<1> DEFINE then == prime[p].elapsed + 1
           lost == IF Stalls(prime[p]) THEN prime[p].stalled + 1 ELSE prime[p].stalled
           r == [prime[p] EXCEPT !.elapsed = then, !.stalled = lost]
<1>2. /\ Becomes(p, r) /\ UNCHANGED <<status, printed, taken>>
      /\ prime[p].pc \notin {"none", "exited", "killed"}
      /\ Waits(prime[p]) \/ Stalls(prime[p])
  BY DEF Tick, Alive
<1>3. /\ prime[p].elapsed \in Nat /\ prime[p].stalled \in Nat /\ prime[p].began \in Nat
      /\ prime[p].asked \in Nat
  BY <1>1, PrimeFields
<1>4. then \in Nat /\ lost \in Nat
  BY <1>3
<1> HIDE DEF then, lost
<1>5. /\ r \in PrimeType /\ r.pc = prime[p].pc /\ r.elapsed = then /\ r.stalled = lost
      /\ r.began = prime[p].began /\ r.asked = prime[p].asked /\ SameTale(r, prime[p])
  BY <1>1, <1>4 DEF PrimeType, SameTale
<1> HIDE DEF r
<1>6. Timely(r)
  <2>1. CASE Stalls(prime[p])
    <3>1. then = prime[p].elapsed + 1 /\ lost = prime[p].stalled + 1
      BY <2>1 DEF then, lost
    <3>2. r.pc \in {"boot", "input", "mark", "print", "error"}
      BY <2>1, <1>5 DEF Stalls
    <3>3. /\ prime[p].elapsed = prime[p].stalled => then = lost
          /\ prime[p].elapsed <= prime[p].stalled + Deadline => then <= lost + Deadline
          /\ prime[p].began <= prime[p].elapsed => prime[p].began <= then
      <4>1. Deadline \in Nat
        BY Times
      <4> QED
        BY <4>1, <3>1, <1>3, Later
    <3>4. prime[p].pc = r.pc /\ r.elapsed = then /\ r.stalled = lost /\ r.began = prime[p].began
      BY <1>5
    <3>5. CASE r.pc \in {"boot", "input", "mark"}
      BY <3>3, <3>4, <3>5, <1>1 DEF Timely
    <3>6. CASE r.pc \in {"print", "error"}
      BY <3>3, <3>4, <3>6, <1>1 DEF Timely
    <3> QED
      BY <3>2, <3>5, <3>6
  <2>2. CASE ~Stalls(prime[p])
    <3>1. then = prime[p].elapsed + 1 /\ lost = prime[p].stalled
      BY <2>2 DEF then, lost
    <3>2. CASE prime[p].pc = "join"
      <4>1. Remaining(prime[p]) > 0
        BY <2>2, <3>2, <1>2 DEF Waits
      <4>2. prime[p].elapsed - prime[p].asked < Deadline
        BY <4>1, <1>3, Times DEF Remaining
      <4>3. then <= prime[p].asked + Deadline
        BY <4>2, <3>1, <1>3, Times, Within
      <4>4. prime[p].asked <= lost
        BY <3>1, <3>2, <1>1 DEF Timely
      <4>5. then <= lost + Deadline
        BY <4>3, <4>4, <1>3, <1>4, Times, Reaches
      <4> QED
        BY <3>2, <4>3, <4>4, <4>5, <1>5 DEF Timely
    <3>3. CASE prime[p].pc = "finish"
      <4>1. ~(prime[p].elapsed - prime[p].began >= FinishBy)
        BY <2>2, <3>3, <1>2 DEF Waits, FinishWaited
      <4>2. prime[p].elapsed + 1 <= prime[p].began + FinishBy
        <5>1. FinishBy \in Nat
          BY Times
        <5> QED
          BY <4>1, <5>1, <1>3, NotYet
      <4> QED
        BY <3>1, <3>3, <4>2, <1>5 DEF Timely
    <3> QED
      BY <2>2, <3>2, <3>3, <1>2 DEF Waits
  <2> QED
    BY <2>1, <2>2
<1> QED
  BY <1>1, <1>2, <1>5, <1>6, QuietPrimeStep DEF Telling, SameTale

LEMMA KillKeeps ==
  ASSUME PrimeInv, NEW p \in Primes, Kill(p)
  PROVE  PrimeInv'
<1> USE DEF PrimeInv
<1>1. /\ prime[p] \in PrimeType /\ Timely(prime[p]) /\ Telling(p)
      /\ prime[p].pc \notin {"none", "exited", "killed"} /\ prime[p].elapsed = KillAt
  BY DEF PrimeTyped, Kill, Alive
<1> DEFINE r == [prime[p] EXCEPT !.pc = "killed"]
<1>2. /\ r \in PrimeType /\ r.pc = "killed" /\ SameClocks(r, prime[p])
      /\ SameTale(r, prime[p])
  BY <1>1 DEF PrimeType, SameClocks, SameTale
<1>3. Becomes(p, r)
  BY DEF Kill, Step
<1> HIDE DEF r
<1>4. Timely(r)
  <2>1. prime[p].elapsed \in Nat /\ prime[p].stalled \in Nat
    BY <1>1, PrimeFields
  <2>2. \/ prime[p].elapsed <= prime[p].stalled + Deadline
        \/ prime[p].elapsed <= prime[p].began + FinishBy
    BY <2>1, <1>1, Times DEF Timely, PrimeType
  <2> QED
    BY <2>2, <1>1, <1>2 DEF Timely, SameClocks
<1> QED
  BY <1>1, <1>2, <1>3, <1>4, QuietPrimeStep DEF Kill, Telling, SameTale

LEMMA PrimeNextKeeps ==
  ASSUME PrimeInv, NEW p \in Primes, PrimeStep(p) \/ Fire(p) \/ Skip(p) \/ Configured(p)
  PROVE  PrimeInv'
  BY FireKeeps, UpKeeps, SkipKeeps, ConfiguredKeeps, MarkKeeps, LegKeeps, JoinKeeps, EmitKeeps,
     RejectKeeps, ReportKeeps, StartFinisherKeeps, WriteFinishedKeeps, SpawnKeeps, ExitKeeps,
     TickKeeps, KillKeeps DEF PrimeStep

LEMMA PrimeStutter ==
  ASSUME PrimeInv, UNCHANGED primeVars
  PROVE  PrimeInv'
<1>1. PrimeTyped'
  BY DEF PrimeInv, PrimeTyped, primeVars
<1>2. \A p \in Primes : (Timely(prime[p]) /\ Telling(p))'
  BY DEF PrimeInv, primeVars, Timely, Telling
<1> QED
  BY <1>1, <1>2 DEF PrimeInv

LEMMA PrimeStarts ==
  ASSUME PrimeInit
  PROVE  PrimeInv
<1>1. PrimeTyped
  BY FreshTyped DEF PrimeInit, PrimeTyped, NoStatus
<1>2. ASSUME NEW p \in Primes
      PROVE  Timely(prime[p]) /\ Telling(p)
  <2>1. prime[p] = Fresh /\ printed[p] = {} /\ status.by # p
    BY Times DEF PrimeInit, NoStatus
  <2> QED
    BY <2>1, FreshTyped DEF Telling
<1> QED
  BY <1>1, <1>2 DEF PrimeInv

\* A kill comes late: the last of its clocks' bounds that was passed says why.
LEMMA LateOnly ==
  ASSUME PrimeInv, NEW p \in Primes, prime[p].pc = "killed"
  PROVE  prime[p].began >= KillAt - FinishBy \/ prime[p].stalled >= KillAt - Deadline
<1>1. prime[p] \in PrimeType /\ Timely(prime[p])
  BY DEF PrimeInv, PrimeTyped
<1>2. /\ prime[p].elapsed = KillAt /\ prime[p].stalled \in Nat /\ prime[p].began \in Nat
      /\ \/ prime[p].elapsed <= prime[p].stalled + Deadline
         \/ prime[p].elapsed <= prime[p].began + FinishBy
  BY <1>1, PrimeFields DEF Timely
<1> QED
  BY <1>2, Times

LEMMA PrimeTells ==
  ASSUME PrimeInv
  PROVE  KilledOnlyLate /\ StatusTells
<1>1. KilledOnlyLate
  BY LateOnly DEF KilledOnlyLate, Is
<1>2. ASSUME NEW p \in Primes, status.by = p, ~Alive(p)
      PROVE  CASE status.phase = "started" -> Is(p, "killed") \/ ~prime[p].reported
               [] status.phase = "finished" ->
                    /\ status.legs = printed[p]
                    /\ p \in taken \/ prime[p].began >= KillAt - FinishBy
                                   \/ prime[p].stalled >= KillAt - Deadline
  <2>1. Telling(p) /\ status.phase \in {"none", "started", "finished"}
    BY DEF PrimeInv, PrimeTyped
  <2>2. CASE status.phase = "started"
    BY <2>1, <2>2, <1>2 DEF Telling
  <2>3. CASE status.phase = "finished"
    <3>1. prime[p].pc \in {"exited", "killed"}
      BY <2>1, <2>3, <1>2 DEF Telling, Alive
    <3> QED
      BY <3>1, <2>1, <2>3, <1>2, LateOnly DEF Telling
  <2> QED
    BY <2>1, <2>2, <2>3, <1>2 DEF Telling
<1> QED
  BY <1>1, <1>2 DEF StatusTells

-------------------------------------------------------------------------------
(* The host *)

HostAll == HostInv /\ PrimeInv

LEMMA HostAllInductive ==
  /\ Init => HostAll
  /\ HostAll /\ [Next]_vars => HostAll'
<1>1. Init => HostAll
  BY HostStarts, PrimeStarts DEF Init, HostAll
<1>2. ASSUME HostAll, Next
      PROVE  HostAll'
  <2> USE DEF HostAll
  <2>1. CASE HostNext /\ UNCHANGED primeVars
    BY <1>2, <2>1, HostStepKeeps, PrimeStutter
  <2>2. ASSUME NEW p \in Primes, SessionStart(p) \/ ReadConfig(p) \/ PrimeStep(p),
               UNCHANGED hostVars
        PROVE  HostAll'
    <3>1. PrimeStep(p) \/ Fire(p) \/ Skip(p) \/ Configured(p)
      BY <2>2 DEF SessionStart, ReadConfig, Unconfigured
    <3> QED
      BY <3>1, <1>2, <2>2, PrimeNextKeeps, HostStutter
  <2> QED
    BY <1>2, <2>1, <2>2 DEF Next, SessionStart, ReadConfig
<1>3. ASSUME HostAll, UNCHANGED vars
      PROVE  HostAll'
  BY <1>3, HostStutter, PrimeStutter DEF HostAll, vars
<1> QED
  BY <1>1, <1>2, <1>3

\* What every state of a host is: commands, files, settings and primes keep
\* their types, and every setup its story.
THEOREM HostSound == Spec => []HostAll
  BY HostAllInductive, PTL DEF Spec

\* A hook that can fire finds a whole configuration, unless a setup is being
\* undone or was disturbed; no client's credentials are ever half written.
THEOREM HookFindsConfig == Spec => []HookHasConfig
<1>1. HostAll => HookHasConfig
  BY DEF HostAll, HostInv
<1> QED
  BY <1>1, HostSound, PTL

\* No edit drops a hook of another program that it could have seen.
THEOREM OthersAreKept == Spec => []OthersKept
<1>1. HostAll => OthersKept
  BY DEF HostAll, HostInv
<1> QED
  BY <1>1, HostSound, PTL

\* A setup of the recorder nobody disturbed does all it reports, or nothing.
THEOREM SetupsAreAtomic == Spec => SetupAtomic
<1> DEFINE AllOrNothing ==
      \A c \in Commands :
       Kind[c] = "setup" /\ Target[c] = Recorder /\ Running(c) /\ command'[c].alone =>
         /\ command'[c].pc = "done" => Succeeded(c)
         /\ command'[c].pc = "failed" => Untouched(c)
<1>1. ASSUME HostAll, [Next]_vars
      PROVE  [AllOrNothing]_hostVars
  <2>1. CASE HostNext
    BY <1>1, <2>1, HostStepAtomic DEF HostAll
  <2>2. CASE UNCHANGED hostVars
    BY <2>2
  <2> QED
    BY <1>1, <2>1, <2>2 DEF Next, SessionStart, ReadConfig, vars
<1> QED
  BY <1>1, HostSound, PTL DEF Spec, SetupAtomic

\* No slow or silent read, and no stalled finisher, loses a prime's context.
THEOREM KillsComeLate == Spec => []KilledOnlyLate
<1>1. HostAll => KilledOnlyLate
  BY PrimeTells DEF HostAll
<1> QED
  BY <1>1, HostSound, PTL

\* The status tells what became of the prime that wrote it last.
THEOREM StatusIsTrue == Spec => []StatusTells
<1>1. HostAll => StatusTells
  BY PrimeTells DEF HostAll
<1> QED
  BY <1>1, HostSound, PTL
===============================================================================
