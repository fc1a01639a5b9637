------------------------------- MODULE Prompt -------------------------------
(***************************************************************************)
(* The prompt of the terminal shell: keys, pastes and the bursts that are  *)
(* taken for pastes, the labels that stand for pasted text, the history    *)
(* and its two files, slash commands, and the view and overlay a key may   *)
(* change.  A text is a sequence of characters, of which only the break,   *)
(* the blank, the slash and the label of a paste are told apart; a label   *)
(* the user has deleted into is Torn.                                      *)
(***************************************************************************)
EXTENDS Integers, Sequences, FiniteSetsExt, SequencesExt

CONSTANTS
  Letters,     \* the characters the user types
  Pastes,      \* the texts the user pastes
  Registry,    \* the slash commands: from the name to the effect
  Chords,      \* the global keys: from the key to the command
  BareKeys,    \* the keys that are commands when nothing is being typed
  Views,       \* VIEW_ORDER, a sequence
  Saved,       \* the files earlier sessions may have left
  MaxHistory,  \* max, the entries the history keeps
  MaxTyped,    \* bound: the characters typed into one prompt
  MaxText,     \* bound: the length of a prompt a paste leaves
  MaxSubmits,  \* bound: the texts submitted in one behaviour
  None

Break == "\n"
Blank == " "
Slash == "/"
Label == "[Pasted]"
Torn  == "[Past"

PromptAssumption ==
  /\ Letters \cap {Break, Blank, Slash, Label, Torn} = {}
  /\ MaxHistory \in Nat \ {0}
  /\ \A name \in DOMAIN Registry : name # <<>>

VARIABLES
  prompt,      \* the text
  completion,  \* completionIndex
  start,       \* sessionStartPrompt, the prompt at the last unhurried key
  burst,       \* burstActive, burstStartPrompt and whether burstTimer runs
  clock,       \* "burst" just after a hurried Enter, "idle" once the timer has
               \* run out since: the next key is then not a hurried one
  paste,       \* pasteBuf, or None when not pasting
  history,     \* the HistoryManager
  files,       \* history.json and the legacy file, as the entries written
  ui,          \* UiState
  approval,    \* is an approval pending?
  running,     \* has the user not quit?
  submits,     \* how many texts were submitted
  meant,       \* the characters the user has put into the prompt
  echo,        \* history: the places of those that a paste's last piece has put in again
  torn         \* has the user deleted a part of a label?

vars == <<prompt, completion, start, burst, clock, paste, history, files, ui,
          approval, running, submits, meant, echo, torn>>

-----------------------------------------------------------------------------
(* Texts.                                                                  *)

Written(text) == SelectSeq(text, LAMBDA c : c \notin {Break, Blank, Label, Torn})

Without(text, places) ==
  LET kept == SetToSortSeq(DOMAIN text \ places, LAMBDA i, j : i < j)
  IN  [k \in DOMAIN kept |-> text[kept[k]]]

Trim(text) ==
  LET inner == {i \in DOMAIN text : text[i] \notin {Break, Blank}}
  IN  IF inner = {} THEN <<>> ELSE SubSeq(text, Min(inner), Max(inner))

BreaksBefore(text, i) == Cardinality({j \in 1..i - 1 : text[j] = Break})
Lines(text) ==
  [k \in 1..BreaksBefore(text, Len(text) + 1) + 1 |->
     LET line == {i \in DOMAIN text : text[i] # Break /\ BreaksBefore(text, i) = k - 1}
     IN  IF line = {} THEN <<>> ELSE SubSeq(text, Min(line), Max(line))]
Join(lines) ==
  IF lines = <<>> THEN <<>>
  ELSE FoldLeft(LAMBDA text, line : text \o <<Break>> \o line, Head(lines), Tail(lines))

stripPasteLabels(text) == Join(SelectSeq(Lines(text), LAMBDA line : line # <<Label>>))

appendPastedText(prev, pasted) ==
  IF Len(Lines(pasted)) <= 1 THEN prev \o pasted
  ELSE (IF prev = <<>> THEN <<>> ELSE Append(prev, Break)) \o <<Label, Break>> \o pasted

\* Mutant: does not look at what stands before the burst now.
CollapseAnyway(current, from) ==
  LET added == SubSeq(current, Len(from) + 1, Len(current))
  IN  IF Len(Lines(added)) <= 1 THEN current ELSE appendPastedText(from, added)

\* A burst is collapsed into a label and its text, unless what stood before it has
\* changed.
collapseBurst(current, from) ==
  IF ~IsPrefix(from, current) THEN current
  ELSE LET rest == SubSeq(current, Len(from) + 1, Len(current))
           added == IF rest # <<>> /\ rest[1] = Break THEN Tail(rest) ELSE rest
       IN  IF Len(Lines(added)) <= 1 THEN current ELSE appendPastedText(from, added)

\* parseSlashInput, without arguments: the name after the slash, or None.
slashName(text) ==
  IF text = <<>> \/ text[1] # Slash \/ Trim(Tail(text)) = <<>> THEN None ELSE Trim(Tail(text))

\* completions: the commands the input is a prefix of, in the order of the registry.
completions(text) ==
  IF text = <<>> \/ text[1] # Slash \/ Contains(text, Blank) THEN <<>>
  ELSE SetToSortSeq({name \in DOMAIN Registry : IsPrefix(Tail(text), name)},
                    LAMBDA a, b : Len(a) < Len(b))

\* The rest of the newest entry that starts with the input.
ghostSuffix(text, entries) ==
  LET fits == {i \in DOMAIN entries : IsStrictPrefix(text, entries[i])}
  IN  IF text = <<>> \/ fits = {} THEN <<>>
      ELSE SubSeq(entries[Max(fits)], Len(text) + 1, Len(entries[Max(fits)]))
ghost == IF completions(prompt) # <<>> THEN <<>> ELSE ghostSuffix(prompt, history.entries)

\* A word with the blanks before it.
acceptWord(suffix) ==
  LET IsBlank(i) == suffix[i] \in {Break, Blank}
      after == {i \in DOMAIN suffix : IsBlank(i) /\ \E j \in 1..i - 1 : ~IsBlank(j)}
  IN  IF after = {} THEN suffix ELSE SubSeq(suffix, 1, Min(after) - 1)

-----------------------------------------------------------------------------
(* The history.                                                            *)

NoHistory == [entries |-> <<>>, cursor |-> None, draft |-> <<>>]

Newest(entries) ==
  SubSeq(entries, Max({0, Len(entries) - MaxHistory}) + 1, Len(entries))
add(h, text) ==
  LET entry == Trim(text)
  IN  IF entry = <<>> THEN h
      ELSE [entries |-> Newest(Append(SelectSeq(h.entries, LAMBDA e : e # entry), entry)),
            cursor |-> None, draft |-> <<>>]

\* The draft is of no use then.
stopBrowsing(h) == [h EXCEPT !.cursor = None, !.draft = <<>>]

\* Up and Down: the history and the prompt they leave.
up(h, text) ==
  IF h.entries = <<>> THEN <<h, text>>
  ELSE LET at == IF h.cursor = None THEN Len(h.entries) ELSE Max({1, h.cursor - 1})
       IN  <<[h EXCEPT !.cursor = at, !.draft = IF h.cursor = None THEN text ELSE @],
             h.entries[at]>>
down(h, text) ==
  CASE h.cursor = None -> <<h, text>>
    [] h.cursor # None /\ h.cursor < Len(h.entries) ->
         <<[h EXCEPT !.cursor = @ + 1], h.entries[h.cursor + 1]>>
    [] OTHER -> <<stopBrowsing(h), h.draft>>

\* What a new session starts with: the lines of the legacy file, each saved over
\* history.json as it is added, and then the entries that file has beside them.
createHistory(saved) ==
  LET lines == SelectSeq(FlattenSeq([k \in DOMAIN saved.legacy |-> Lines(saved.legacy[k])]),
                         LAMBDA line : line # <<>>)
      first == FoldLeft(add, NoHistory, lines)
      json  == IF lines = <<>> THEN saved.json ELSE first.entries
  IN  [history |-> [first EXCEPT !.entries =
                      @ \o SelectSeq(json, LAMBDA e : ~Contains(first.entries, e))],
       json |-> json]

-----------------------------------------------------------------------------
(* Commands.                                                               *)

Command(type, arg) == [type |-> type, arg |-> arg]

\* resolveKey: the command a key is, or None.
resolveKey(key) ==
  LET empty == prompt = <<>>
  IN  CASE key = "escape" -> Command(IF ui.overlay # None THEN "close-overlay" ELSE "cancel", None)
        [] key \in DOMAIN Chords -> Chords[key]
        [] key = "tab" /\ ui.overlay = None /\ empty -> Command("next-view", None)
        [] key \in {"return", "a"} /\ ui.overlay = None /\ approval /\ empty -> Command("approve", None)
        [] key = "n" /\ ui.overlay = None /\ approval /\ empty -> Command("reject", None)
        [] key = "d" /\ ui.overlay = None /\ approval /\ empty -> Command("view-diff", None)
        [] key \in DOMAIN BareKeys /\ ui.overlay = None /\ empty -> BareKeys[key]
        [] OTHER -> None

cycleView(view) ==
  LET at == CHOOSE i \in DOMAIN Views : Views[i] = view IN Views[(at % Len(Views)) + 1]

uiReduce(u, command) ==
  CASE command.type = "focus-view"    -> [u EXCEPT !.view = command.arg]
    [] command.type = "next-view"     -> [u EXCEPT !.view = cycleView(@)]
    [] command.type = "open-overlay"  -> [u EXCEPT !.overlay = command.arg]
    [] command.type = "close-overlay" -> [u EXCEPT !.overlay = None]
    [] command.type = "view-diff"     -> [u EXCEPT !.overlay = IF @ = "diff" THEN None ELSE "diff"]
    [] command.type = "toggle-zoom"   -> [u EXCEPT !.zoom = ~@]
    [] OTHER -> u

\* dispatchCommand: what it does to the shell, and to the prompt.
shellAfter(command) ==
  /\ running' = (command.type # "quit")
  /\ approval' = (approval /\ command.type \notin {"approve", "reject"})
  /\ ui' = IF command.type \in {"approve", "reject"}
           THEN IF ui.overlay = "diff" THEN uiReduce(ui, Command("close-overlay", None)) ELSE ui
           ELSE uiReduce(ui, command)

dispatchCommand(command) ==
  /\ shellAfter(command)
  /\ IF command.type = "cancel"
     THEN /\ prompt' = <<>>
          /\ completion' = 0
          /\ history' = stopBrowsing(history)
          /\ meant' = <<>> /\ echo' = {}
     ELSE UNCHANGED <<prompt, completion, history, meant, echo>>

\* The effect of what is submitted on the shell: a slash command's own, or the
\* conversation for a message.
Effect(text) ==
  CASE slashName(text) = None -> Command("focus-view", "conversation")
    [] slashName(text) \in DOMAIN Registry -> Registry[slashName(text)]
    [] OTHER -> Command("error", None)

-----------------------------------------------------------------------------
NoBurst == [active |-> FALSE, timer |-> FALSE, start |-> <<>>]

Init ==
  /\ prompt = <<>> /\ completion = 0 /\ start = <<>> /\ clock = "idle"
  /\ burst = NoBurst
  /\ paste = None
  /\ \E saved \in Saved :
       LET new == createHistory(saved)
       IN  history = new.history /\ files = [saved EXCEPT !.json = new.json]
  /\ ui = [view |-> "conversation", overlay |-> None, zoom |-> FALSE]
  /\ approval = FALSE
  /\ running = TRUE
  /\ submits = 0
  /\ meant = <<>> /\ echo = {}
  /\ torn = FALSE

\* Bound: texts are pasted and approvals asked for only while there is no history
\* and no burst, and keys are hurried only then, with no approval pending, in the
\* first view and in a prompt of letters and breaks; with a history a prompt is one
\* character shorter.
Fresh == history.entries = <<>> /\ submits = 0
Room == Len(prompt) < IF Fresh THEN MaxTyped ELSE MaxTyped - 1
Hurriable ==
  /\ Fresh /\ ~approval
  /\ ui.view = Views[1]
  /\ \A i \in DOMAIN prompt : prompt[i] \in Letters \cup {Break}

\* A key that is pressed, less than FAST_INPUT_MS after the one before when
\* hurried.  A key that arrives while pasting is a part of the paste.
Press(hurried) ==
  /\ running
  /\ paste = None
  /\ hurried => clock # "idle" /\ Hurriable
  /\ start' = IF hurried THEN start ELSE IF Hurriable THEN prompt ELSE <<>>

\* A key that is a command, whatever is being typed.
KeyIsCommand(key, hurried) ==
  /\ Press(hurried)
  /\ resolveKey(key) # None
  /\ dispatchCommand(resolveKey(key))
  /\ clock' = "typing"
  /\ torn' = (torn /\ prompt' # <<>>)
  /\ UNCHANGED <<burst, paste, files, submits>>

\* A key of the overlay's own handler: the prompt does not see it.
KeyOfOverlay(key, hurried) ==
  /\ Press(hurried)
  /\ ui.overlay # None
  /\ resolveKey(key) = None
  /\ clock' = "typing"
  /\ UNCHANGED <<prompt, completion, burst, paste, history, files, ui, approval, running,
                 submits, meant, echo, torn>>

\* A key that edits the prompt.
Edit(key, hurried) ==
  /\ Press(hurried)
  /\ ui.overlay = None
  /\ resolveKey(key) = None
  /\ UNCHANGED <<paste, approval, running>>

Type(key, hurried) ==
  /\ Edit(key, hurried)
  /\ key = Slash => prompt = <<>>  \* bound: no slash further on
  /\ Room
  /\ prompt' = Append(prompt, key)
  /\ completion' = 0
  /\ clock' = "typing"
  /\ meant' = Append(meant, key)
  /\ UNCHANGED <<echo, burst, history, files, ui, submits, torn>>

\* A paste without markers that arrives in one piece; one of a single letter is
\* a key.
TypePasted(pasted, hurried) ==
  /\ Fresh /\ ~burst.active
  /\ Edit(Break, hurried)
  /\ Len(appendPastedText(prompt, pasted)) <= MaxText
  /\ prompt' = IF Contains(pasted, Break) THEN appendPastedText(prompt, pasted) ELSE prompt \o pasted
  /\ completion' = 0
  /\ clock' = "typing"
  /\ meant' = meant \o Written(pasted)
  /\ UNCHANGED <<echo, burst, history, files, ui, submits, torn>>

\* Backspace takes the last character, and of a label, which is many, a part.
Shortened(text) ==
  IF text = <<>> THEN {<<>>}
  ELSE {short \in {Front(text), Append(Front(text), Torn)} :
          IF short = Front(text) THEN Last(text) # Label ELSE Last(text) \in {Label, Torn}}
Backspace(hurried) ==
  /\ Edit("backspace", hurried)
  /\ prompt' \in Shortened(prompt)
  /\ completion' = 0
  /\ history' = stopBrowsing(history)
  /\ clock' = "typing"
  /\ meant' = Written(prompt') /\ echo' = {}
  /\ torn' = (torn \/ Contains(prompt, Label))
  /\ UNCHANGED <<burst, files, ui, submits>>

\* Tab and Right take what is suggested.
Accept(key, hurried) ==
  LET items == completions(prompt)
  IN  /\ Edit(key, hurried)
      /\ prompt' = CASE key = "tab" /\ items # <<>> ->
                          <<Slash>> \o items[Min({completion + 1, Len(items)})] \o <<Blank>>
                     [] key = "tab" /\ items = <<>> -> prompt \o ghost
                     [] OTHER -> prompt \o acceptWord(ghost)
      /\ completion' = IF key = "tab" /\ items # <<>> THEN 0 ELSE completion
      /\ clock' = "typing"
      /\ meant' = Written(prompt') /\ echo' = {}
      /\ UNCHANGED <<burst, history, files, ui, submits, torn>>

\* The arrows walk the completions, or the history when there are none.
Arrow(key, hurried) ==
  LET last == Len(completions(prompt)) - 1
      moved == IF key = "up" THEN up(history, prompt) ELSE down(history, prompt)
  IN  /\ Edit(key, hurried)
      /\ IF last >= 0
         THEN /\ completion' = IF key = "up" THEN Max({0, completion - 1}) ELSE Min({last, completion + 1})
              /\ UNCHANGED <<prompt, history, meant, echo>>
         ELSE /\ history' = moved[1]
              /\ prompt' = moved[2]
              /\ meant' = Written(prompt') /\ echo' = {}
              /\ UNCHANGED completion
      /\ clock' = "typing"
      /\ UNCHANGED <<burst, files, ui, submits, torn>>

\* Shift+Enter breaks the line, and so does an Enter too soon after the key
\* before: it is taken for a part of a paste, and starts a burst or prolongs it.
BreakLine(key, hurried) ==
  /\ Edit(key, hurried)
  /\ key = "return" => hurried
  /\ Room
  /\ prompt' = Append(prompt, Break)
  /\ IF key = "return"
     THEN /\ burst' = [active |-> TRUE, timer |-> TRUE,
                       start |-> IF burst.active THEN burst.start ELSE start']
          /\ clock' = "burst"
     ELSE clock' = "typing" /\ UNCHANGED burst
  /\ UNCHANGED <<completion, history, files, ui, submits, meant, echo, torn>>

\* BURST_IDLE_MS after the last hurried Enter.
finalizeBurst ==
  /\ running
  /\ burst.timer
  /\ burst' = NoBurst
  /\ prompt' = collapseBurst(prompt, burst.start)
  /\ clock' = IF clock = "burst" THEN "idle" ELSE clock
  /\ UNCHANGED <<completion, start, paste, history, files, ui, approval, running,
                 submits, meant, echo, torn>>

\* An unhurried Enter ends a burst and submits the prompt; either history file may
\* fail to be written.
submitPrompt(saved) ==
  LET text == Trim(stripPasteLabels(prompt))
  IN  /\ Press(FALSE)
      /\ ui.overlay = None
      /\ resolveKey("return") = None
      /\ clock' = "typing"
      /\ burst' = NoBurst
      /\ IF text = <<>>
         THEN UNCHANGED <<prompt, completion, history, files, ui, running, submits, meant, echo, torn>>
         ELSE /\ submits < MaxSubmits
              /\ submits' = submits + 1
              /\ history' = add(history, text)
              /\ files' = [file \in {"json", "legacy"} |->
                             IF file \in saved THEN history'.entries ELSE files[file]]
              /\ prompt' = <<>>
              /\ completion' = 0
              /\ meant' = <<>> /\ echo' = {}
              /\ torn' = FALSE
              /\ ui' = uiReduce(ui, Effect(text))
              /\ running' = (Effect(text).type # "quit")
      /\ UNCHANGED <<paste, approval>>

\* The terminal marks where a paste starts and ends.  It goes to the prompt even
\* under an overlay.
PasteStart(pasted) ==
  /\ Fresh /\ ~burst.active
  /\ running
  /\ paste = None
  /\ Len(appendPastedText(prompt, pasted)) <= MaxText
  /\ paste' = pasted
  /\ UNCHANGED <<prompt, completion, start, burst, clock, history, files, ui, approval, running,
                 submits, meant, echo, torn>>

\* The piece with the end marker reaches the keyboard handler too, when the paste is over:
\* unless an overlay is open, what the piece has before the marker is typed, and a letter
\* alone may be a command.  The handler sees the prompt of the last render, without the
\* paste.  Bound: a piece is no break alone.
PasteEnd(size, hurried) ==
  LET piece == SubSeq(paste, Len(paste) - size + 1, Len(paste))
      command == IF size = 1 THEN resolveKey(piece[1]) ELSE None
      pasted == appendPastedText(prompt, paste)
      isTyped == size > 0 /\ command = None /\ ui.overlay = None
      before == Len(Written(pasted))
  IN  /\ running
      /\ paste # None /\ piece # <<Break>>
      /\ hurried => size > 0 /\ clock # "idle" /\ Hurriable
      /\ prompt' = CASE isTyped /\ Contains(piece, Break) -> appendPastedText(pasted, piece)
                     [] isTyped /\ ~Contains(piece, Break) -> pasted \o piece
                     [] OTHER -> pasted
      /\ paste' = None
      /\ meant' = meant \o Written(paste)
      /\ echo' = echo \cup (before + 1..Len(Written(prompt')))
      /\ completion' = IF isTyped THEN 0 ELSE completion
      /\ IF command # None THEN shellAfter(command) ELSE UNCHANGED <<ui, approval, running>>
      /\ IF size = 0 THEN UNCHANGED <<start, clock>>
         ELSE /\ clock' = "typing"
              /\ start' = IF hurried THEN start ELSE IF Hurriable THEN prompt ELSE <<>>
      /\ UNCHANGED <<burst, history, files, submits, torn>>

\* The agent asks for an approval.
AskApproval ==
  /\ Fresh /\ ~burst.active
  /\ running
  /\ ~approval
  /\ approval' = TRUE
  /\ UNCHANGED <<prompt, completion, start, burst, clock, paste, history, files, ui, running,
                 submits, meant, echo, torn>>

\* The shell is started again after the user has quit.
Restart ==
  LET new == createHistory(files)
  IN  /\ ~running
      /\ running' = TRUE
      /\ history' = new.history
      /\ files' = [files EXCEPT !.json = new.json]
      /\ prompt' = <<>> /\ completion' = 0 /\ start' = <<>> /\ clock' = "idle"
      /\ burst' = NoBurst
      /\ paste' = None
      /\ ui' = [view |-> "conversation", overlay |-> None, zoom |-> FALSE]
      /\ approval' = FALSE
      /\ meant' = <<>> /\ echo' = {}
      /\ torn' = FALSE
      /\ UNCHANGED <<submits>>

Keys == DOMAIN Chords \cup DOMAIN BareKeys \cup Letters
          \cup {Slash, "escape", "tab", "right", "up", "down", "return", "shift-return", "n", "d"}

Next ==
  \/ \E hurried \in BOOLEAN :
       \/ \E key \in Keys : KeyIsCommand(key, hurried) \/ KeyOfOverlay(key, hurried)
       \/ \E key \in Letters \cup {Slash} : Type(key, hurried)
       \/ \E key \in {"tab", "right"} : Accept(key, hurried)
       \/ \E key \in {"up", "down"} : Arrow(key, hurried)
       \/ \E key \in {"return", "shift-return"} : BreakLine(key, hurried)
       \/ \E pasted \in Pastes : TypePasted(pasted, hurried)
       \/ Backspace(hurried)
  \/ \E saved \in SUBSET {"json", "legacy"} : submitPrompt(saved)
  \/ \E pasted \in Pastes : PasteStart(pasted)
  \/ finalizeBurst
  \/ \E size \in 0..(IF paste = None THEN 0 ELSE Len(paste)), hurried \in BOOLEAN : PasteEnd(size, hurried)
  \/ AskApproval
  \/ Restart

Spec == Init /\ [][Next]_vars

-----------------------------------------------------------------------------
(* The properties.                                                         *)

TypeOK ==
  /\ completion \in Nat
  /\ clock \in {"typing", "burst", "idle"}
  /\ burst.timer = burst.active
  /\ ui.view \in {Views[i] : i \in DOMAIN Views} /\ ui.zoom \in BOOLEAN
  /\ {approval, running, torn} \subseteq BOOLEAN
  /\ submits \in 0..MaxSubmits

\* Whatever the bursts and the labels make of the prompt, its characters are the ones
\* the user has put in, in order and each once, but for those of a paste that arrived with
\* its end marker: they are typed again behind it.
TextIsKept ==
  /\ echo \subseteq DOMAIN Written(prompt)
  /\ Without(Written(prompt), echo) = meant

\* So are those of what is submitted, and a label, which is for the screen, is not in
\* it unless the user has deleted into one.
SentAsMeant ==
  [][submits' > submits =>
       /\ Without(Written(Last(history'.entries)), echo) = meant
       /\ torn \/ ~Contains(Last(history'.entries), Label)]_vars

\* The history keeps each text once, none that is empty, at most as many as it may,
\* and the place the arrows have reached is one of its.
HistoryIsSound ==
  LET entries == history.entries
  IN  /\ IsInjective(entries)
      /\ Len(entries) <= MaxHistory
      /\ \A i \in DOMAIN entries : entries[i] # <<>> /\ Trim(entries[i]) = entries[i]
      /\ history.cursor \in DOMAIN entries \cup {None}

PromptIsSound == TypeOK /\ TextIsKept /\ HistoryIsSound

\* While an overlay is open no key reaches the prompt under it, and an approval is
\* answered only from an empty prompt without an overlay.
KeysReachTheirOwner ==
  [][/\ ui.overlay # None /\ running /\ paste = None /\ ~burst.timer => UNCHANGED prompt
     /\ approval /\ ~approval' /\ running => prompt = <<>> /\ ui.overlay = None]_vars

\* A text of one line that the legacy file holds is in the history after a restart,
\* unless as many others as the history keeps have come with it.
HistorySurvives ==
  [][~running /\ running' =>
       \A i \in DOMAIN files.legacy :
         Contains(files.legacy[i], Break) \/ Contains(history'.entries, files.legacy[i])
           \/ Len(history'.entries) = MaxHistory]_vars

=============================================================================
