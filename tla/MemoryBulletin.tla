--------------------------- MODULE MemoryBulletin ---------------------------
(* The memory bulletin that is put in front of every selector prompt        *)
(* (memory/bulletin.rs): recalled memories are sorted into six sections and *)
(* the text is cut down to a limit.  Lengths are counted in units: a        *)
(* section's heading, the dash of an empty section and a line each have     *)
(* one length, which is all the truncation looks at.                        *)
EXTENDS Integers, Sequences, FiniteSets, FiniteSetsExt, SequencesExt

Heading == 2        \* "<section>:\n"
Dash == 1           \* "-\n", shown by a section that has no line
LineLength == 3     \* "- <summary> [<memory id>]\n"

Goals == "active_goals"
Todos == "open_todos"
Decisions == "recent_decisions"
Preferences == "preference_profile"
Knowledge == "knowledge_summary"
Conflicts == "conflicts_and_uncertainties"

SectionNames == {Goals, Todos, Decisions, Preferences, Knowledge, Conflicts}

(* A bulletin body maps the sections it still has to their lines; a line is *)
(* the id of the memory it cites.                                           *)
EmptySections == [s \in SectionNames |-> <<>>]

SectionLength(sections, s) ==
    IF s \notin DOMAIN sections THEN 0
    ELSE Heading + (IF sections[s] = <<>> THEN Dash ELSE LineLength * Len(sections[s]))

render_sections(sections) ==
      SectionLength(sections, Goals) + SectionLength(sections, Todos)
    + SectionLength(sections, Decisions) + SectionLength(sections, Preferences)
    + SectionLength(sections, Knowledge) + SectionLength(sections, Conflicts)

Fits(sections, limit) == render_sections(sections) <= limit

(* Lines go one at a time, the last line of the first section in this order *)
(* that still has one.                                                      *)
trim_order == <<Knowledge, Preferences, Conflicts, Decisions, Todos, Goals>>

Lines(sections) ==
      Len(sections[Goals]) + Len(sections[Todos]) + Len(sections[Decisions])
    + Len(sections[Preferences]) + Len(sections[Knowledge]) + Len(sections[Conflicts])

(* Mutant of PopLine: the order is followed from its other end.             *)
PopLineBackwards(sections) ==
    LET s == trim_order[Max({i \in 1 .. Len(trim_order) : sections[trim_order[i]] # <<>>})]
    IN  [sections EXCEPT ![s] = Front(@)]

PopLine(sections) ==
    LET s == trim_order[Min({i \in 1 .. Len(trim_order) : sections[trim_order[i]] # <<>>})]
    IN  [sections EXCEPT ![s] = Front(@)]

TrimLines(sections, limit) ==
    LET trimmed[n \in 0 .. Lines(sections)] ==
            IF n = 0 THEN sections
            ELSE LET prev == trimmed[n - 1] IN
                 IF Fits(prev, limit) THEN prev ELSE PopLine(prev)
    IN  trimmed[Lines(sections)]

(* If the headings alone are too long whole sections go, in another order.  *)
section_drop_order ==
    <<Conflicts, Preferences, Knowledge, Decisions, Todos, Goals>>

DropSections(sections, limit) ==
    LET kept(n) == [s \in SectionNames \ {section_drop_order[i] : i \in 1 .. n} |-> sections[s]]
        fitting == {n \in 0 .. Len(section_drop_order) : Fits(kept(n), limit)}
    IN  kept(Min(fitting))

truncate_sections(sections, limit) == DropSections(TrimLines(sections, limit), limit)

(* The lines of the memories in ids, in the order they were recalled.       *)
LinesOf(recall, ids) ==
    LET at == {i \in DOMAIN recall : recall[i] \in ids}
        Rank(i) == Cardinality({j \in at : j <= i})
    IN  [k \in 1 .. Cardinality(at) |-> recall[CHOOSE i \in at : Rank(i) = k]]

(* recall: memory ids in rank order; section: the section of each id's node *)
(* type; doubtful: ids with an unresolved contradiction or low confidence.  *)
build_memory_bulletin(recall, section, doubtful, limit) ==
    truncate_sections(
        [s \in SectionNames |->
            LinesOf(recall, IF s = Conflicts THEN doubtful
                            ELSE {id \in Range(recall) : section[id] = s})],
        limit)

citations_for_sections(sections) ==
    UNION {Range(sections[s]) : s \in DOMAIN sections}
=============================================================================
