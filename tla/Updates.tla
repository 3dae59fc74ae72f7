---- MODULE Updates ----
(***************************************************************************)
(* The settings menu (src/ui/plugin_menu) and the UpdateChecker            *)
(* (src/updates/update_checker) that its only command is for.  The host    *)
(* ties them together and brings the transport.                            *)
(*                                                                         *)
(* Text is a sequence of characters, of which there are a space, the v of  *)
(* a tag, those that separate, some digits, some letters and one that no   *)
(* version may have.                                                       *)
(***************************************************************************)
EXTENDS Integers, Sequences, SequencesExt

CONSTANTS
    Ladder,             \* sets of texts: the spellings of one version after another
    Malformed,          \* texts that are no version
    MaxNumber           \* the largest std::uint64_t

ASSUME MaxNumberAssumption == MaxNumber \in Nat
ASSUME TextsAssumption ==
    Ladder \in Seq(SUBSET Seq(STRING)) /\ Malformed \subseteq Seq(STRING)

Texts == Malformed \cup UNION ToSet(Ladder)

DigitValue == [d \in {"0", "1", "2", "9"} |->
                 CASE d = "0" -> 0 [] d = "1" -> 1 [] d = "2" -> 2 [] d = "9" -> 9]
IsDigit(c) == c \in DOMAIN DigitValue

\* The characters of an identifier in the order of their codes.
Alphabet == <<"-", "0", "1", "2", "9", "a", "b", "v">>

Items == <<"general", "audio", "models", "matching", "about">>

VARIABLES
    menu,               \* PluginMenu: open_, selected_index_ (0 for none)
    update              \* the command or result that the caller has

updateVars == <<menu, update>>

-----------------------------------------------------------------------------
(* Versions.  What is parsed is a set of one version, or empty. *)

Trim(text) ==
    LET inner == {i \in DOMAIN text : text[i] # " "}
    IN  IF inner = {} THEN <<>> ELSE SubSeq(text, Min(inner), Max(inner))

\* What stands between the dots.
SplitAtDots(text) ==
    LET step(parts, c) == IF c = "." THEN Append(parts, <<>>)
                          ELSE [parts EXCEPT ![Len(parts)] = Append(@, c)]
    IN  FoldLeft(step, <<(<<>>)>>, text)

\* parse_number() of a whole text.
NumberValue(text) == FoldLeft(LAMBDA n, c : 10 * n + DigitValue[c], 0, text)
LeadingZero(text) == Len(text) > 1 /\ text[1] = "0" /\ IsDigit(text[2])
IsNumber(text) ==
    /\ text # <<>> /\ \A c \in ToSet(text) : IsDigit(c)
    /\ ~LeadingZero(text)
    /\ NumberValue(text) <= MaxNumber

\* A number that is too large is compared as text.
ParseIdentifier(text) ==
    [numeric |-> IsNumber(text), number |-> IF IsNumber(text) THEN NumberValue(text) ELSE 0,
     text |-> text]

ValidMetadata(text) ==
    /\ text # <<>> /\ Last(text) \notin {".", "-"}
    /\ ToSet(text) \subseteq ToSet(Alphabet) \cup {"."}

ValidIdentifier(text) == text # <<>> /\ ~LeadingZero(text)

\* Behind the three numbers comes nothing, a pre-release or build metadata.
ParseVersion(input) ==
    LET trimmed == Trim(input)
        value == IF trimmed # <<>> /\ Head(trimmed) = "v" THEN Tail(trimmed) ELSE trimmed
        marks == {i \in DOMAIN value : value[i] \in {"-", "+"}}
        mark == IF marks = {} THEN Len(value) + 1 ELSE Min(marks)
        core == SplitAtDots(SubSeq(value, 1, mark - 1))
        metadata == SubSeq(value, mark + 1, Len(value))
        pre == IF marks # {} /\ value[mark] = "-" THEN SplitAtDots(metadata) ELSE <<>>
    IN  IF /\ Len(core) = 3 /\ \A n \in ToSet(core) : IsNumber(n)
           /\ marks # {} => ValidMetadata(metadata)
           /\ \A i \in ToSet(pre) : ValidIdentifier(i)
        THEN {[core |-> [i \in 1 .. 3 |-> NumberValue(core[i])],
               prerelease |-> [i \in DOMAIN pre |-> ParseIdentifier(pre[i])]]}
        ELSE {}

\* Where t first differs from s, or goes on when s ends.
Divergence(s, t) ==
    {k \in DOMAIN t : /\ \A i \in 1 .. k - 1 : i \in DOMAIN s /\ s[i] = t[i]
                      /\ k \in DOMAIN s => s[k] # t[k]}

TextBefore(s, t) ==
    LET code(c) == CHOOSE i \in DOMAIN Alphabet : Alphabet[i] = c
    IN  \E k \in Divergence(s, t) : k \in DOMAIN s => code(s[k]) < code(t[k])

IdentifierBefore(i, j) ==
    IF i.numeric /\ j.numeric THEN i.number < j.number
    ELSE IF i.numeric # j.numeric THEN i.numeric
    ELSE TextBefore(i.text, j.text)

CoreBefore(m, n) == \E k \in Divergence(m, n) : k \in DOMAIN m => m[k] < n[k]

PrereleaseBefore(p, q) ==
    \E k \in Divergence(p, q) : k \in DOMAIN p => IdentifierBefore(p[k], q[k])

\* Mutant of Older: a version is what its three numbers are, the shorter one the older.
OlderByLength(l, r) ==
    \/ CoreBefore(l.core, r.core)
    \/ l.core = r.core /\ PrereleaseBefore(l.prerelease, r.prerelease)

\* compare_versions() < 0.
Older(l, r) ==
    \/ CoreBefore(l.core, r.core)
    \/ /\ l.core = r.core /\ l.prerelease # <<>>
       /\ r.prerelease = <<>> \/ PrereleaseBefore(l.prerelease, r.prerelease)

-----------------------------------------------------------------------------
(* Checking.  An answer is what the transport did, and the members of the   *)
(* body in order, a value being a string or anything else.                  *)

\* json_string_value(): the first member of that name decides.
TagName(body) ==
    LET named == {i \in DOMAIN body : body[i].key = "tag_name"}
    IN  IF named = {} THEN {} ELSE body[Min(named)].string

CheckStatus(installed, answer) ==
    LET latest == UNION {ParseVersion(tag) : tag \in TagName(answer.body)}
    IN  IF ParseVersion(installed) = {} THEN "invalid_response"
        ELSE IF answer.transport # "completed" THEN "network_error"
        ELSE IF latest = {} THEN "invalid_response"
        ELSE IF \E l \in ParseVersion(installed), r \in latest : Older(l, r)
        THEN "update_available" ELSE "up_to_date"

Member(key, string) == [key |-> key, string |-> string]
Answers ==
    {[transport |-> t, body |-> <<>>] : t \in {"none", "fails", "throws", "completed"}}
    \cup {[transport |-> "completed", body |-> body] :
            body \in {<<Member("tag_name", {})>>}
                     \cup UNION {{<<Member("tag_name", {tag})>>,
                                  <<Member("name", {tag}), Member("tag_name", {})>>} :
                                   tag \in Texts}}

-----------------------------------------------------------------------------
(* The menu.  Its caller deals with a command before it goes on. *)

Closed == [open |-> FALSE, selected |-> 0]

UpdateInit ==
    /\ menu = Closed
    /\ update = [op |-> "none"]

OpenMenu ==
    /\ update.op = "none"
    /\ menu' = [open |-> TRUE, selected |-> 1]
    /\ UNCHANGED update

CloseMenu ==
    /\ update.op = "none"
    /\ menu' = Closed
    /\ UNCHANGED update

\* select(): an index behind the last item is refused.
SelectItem(i) ==
    /\ update.op = "none"
    /\ menu.open /\ i \in DOMAIN Items
    /\ menu' = [menu EXCEPT !.selected = i]
    /\ UNCHANGED update

ActionAvailable == menu.open /\ menu.selected # 0 /\ Items[menu.selected] = "about"

Activate ==
    /\ update.op = "none"
    /\ ActionAvailable
    /\ \E installed \in Texts : update' = [op |-> "command", installed |-> installed]
    /\ UNCHANGED menu

\* check() with the version the command carries.
Check ==
    /\ update.op = "command"
    /\ \E answer \in Answers :
           update' = [op |-> "checked", installed |-> update.installed, answer |-> answer,
                      status |-> CheckStatus(update.installed, answer)]
    /\ UNCHANGED menu

DropUpdate ==
    /\ update.op # "none"
    /\ update' = [op |-> "none"]
    /\ UNCHANGED menu

UpdateNext ==
    \/ OpenMenu \/ CloseMenu \/ Activate \/ Check \/ DropUpdate
    \/ \E i \in 1 .. Len(Items) + 1 : SelectItem(i)

UpdateSpec == UpdateInit /\ [][UpdateNext]_updateVars

-----------------------------------------------------------------------------
Rungs(text) == {i \in DOMAIN Ladder : text \in Ladder[i]}

\* The update check (docs/architecture.md "compares the installed version with the latest
\* GitHub release"): a release is offered exactly if it is higher on the ladder of
\* versions than what is installed, however the two are spelled, so that who follows the
\* offers never comes back to a version, and what cannot be read is neither offered nor
\* called up to date.
OffersGoForward ==
    update.op = "checked" =>
        LET from == Rungs(update.installed)
            to == UNION {Rungs(tag) : tag \in TagName(update.answer.body)}
            told(compared(_, _)) == \E i \in from, j \in to : compared(i, j)
        IN  /\ update.status = "update_available" <=> told(LAMBDA i, j : i < j)
            /\ update.status = "up_to_date" <=> told(LAMBDA i, j : i >= j)

====
