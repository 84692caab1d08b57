------------------------------ MODULE ErrorText -----------------------------
(***************************************************************************)
(* sanitize_work_error_message and the WorkError that stores its result    *)
(* (src/persistence/ingestion/lifecycle.py).  A message is a sequence of   *)
(* character classes: a control character that is dropped, a line break or *)
(* tab, white space, and anything else.                                    *)
(***************************************************************************)
EXTENDS Naturals, Sequences, SequencesExt

CONSTANTS
    Limit,        \* _MAX_ERROR_MESSAGE_CODEPOINTS
    MaxLength     \* bound on the raw messages

ASSUME TextAssumption == Limit \in Nat \ {0} /\ MaxLength \in Nat

Characters == {"control", "break", "space", "other"}

VARIABLES message, stage

textVars == <<message, stage>>

\* The characters of a text at some places, in their order.
Picked(text, places) ==
    [k \in 1..Cardinality(places) |->
        text[CHOOSE n \in places : Cardinality({m \in places : m <= n}) = k]]

\* Control characters go, line breaks and tabs become spaces.
Printable(text) ==
    LET kept == Picked(text, {n \in DOMAIN text : text[n] # "control"})
    IN [n \in DOMAIN kept |-> IF kept[n] = "break" THEN "space" ELSE kept[n]]

JoinedOnce(text) ==    \* slip: pairs of spaces are replaced in one pass
    LET dropped(n) == /\ text[n] = "space" /\ n > 1 /\ text[n - 1] = "space"
                      /\ n = 2 \/ text[n - 2] # "space"
    IN Picked(text, {n \in DOMAIN text : ~dropped(n)})

\* " ".join(text.split()): one space between words and none around them.
Joined(text) ==
    LET single(n) == /\ text[n] = "space" /\ n > 1 /\ text[n - 1] # "space"
                     /\ \E m \in (n + 1)..Len(text) : text[m] # "space"
    IN Picked(text, {n \in DOMAIN text : text[n] # "space" \/ single(n)})

Sanitized(text) == SubSeq(Joined(Printable(text)), 1, Min({Limit, Len(Joined(Printable(text)))}))

\* WorkError.__post_init__
Acceptable(text) ==
    /\ text # <<>>
    /\ Len(text) <= Limit
    /\ text = Sanitized(text)

TextInit ==
    /\ message \in SeqOf(Characters, MaxLength)
    /\ stage = "raw"

\* The caller sanitizes the message.
Sanitize ==
    /\ stage = "raw"
    /\ message' = Sanitized(message)
    /\ stage' = "sanitized"

\* The caller wraps it in a WorkError; an empty one was replaced by the category.
Wrap ==
    /\ stage = "sanitized"
    /\ message # <<>>
    /\ stage' = IF Acceptable(message) THEN "stored" ELSE "refused"
    /\ UNCHANGED message

TextNext == Sanitize \/ Wrap

TextSpec == TextInit /\ [][TextNext]_textVars

\* Words of printable characters with one space between them, the first of which
\* starts the text.
WordsFirst(text) ==
    /\ \A n \in DOMAIN text : text[n] \in {"space", "other"}
    /\ text # <<>> => text[1] = "other"
    /\ \A n \in 1..(Len(text) - 1) : "other" \in {text[n], text[n + 1]}

\* What the caller is handed fits and is one line of words; only the cut can leave
\* a space at its end (lifecycle.py:489-492).
HandedIsClean == stage = "sanitized" =>
    /\ Len(message) <= Limit /\ WordsFirst(message)
    /\ message # <<>> /\ Len(message) < Limit => message[Len(message)] = "other"

\* What is stored is one line without control characters, within the limit,
\* without white space at either end and with single spaces between words
\* (lifecycle.py:480, 113).
StoredIsClean == stage = "stored" =>
    /\ Len(message) \in 1..Limit /\ WordsFirst(message)
    /\ message[Len(message)] = "other"

\* A message within the limit is never refused once it was sanitized: a second
\* pass would change nothing.
ShortIsStored == stage = "refused" => Len(message) = Limit

\* What is handed on and stored is clean, and what is refused was cut.
StoredTexts == HandedIsClean /\ StoredIsClean /\ ShortIsStored
=============================================================================
