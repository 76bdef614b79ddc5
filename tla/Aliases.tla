------------------------------ MODULE Aliases ------------------------------
(***************************************************************************)
(* The alias tables and the command history as the L3 handlers change and  *)
(* list them.  A name is a member of Names; spellings that differ in ASCII *)
(* case have one Key (ascii_case_insensitive_less).  Sizes are in bytes:   *)
(* Units gives the UTF-16 units of a name, Bytes its length in the ANSI    *)
(* code page of the input.                                                 *)
(***************************************************************************)
EXTENDS Naturals, Sequences, SequencesExt, Functions

CONSTANTS Exes, Sources, Targets, Commands, \* disjoint sets of names
          Key(_),          \* the case-folded spelling of an exe or a source
          Sorted,          \* the keys in the order of the flat_map
          Units(_), Bytes(_),
          BodyTail,         \* what msg.body holds behind the API header
          MaxCommands      \* bound: lines in the history

VARIABLES
  aliases,        \* key of a source -> target, whatever exe set it
  aliases_by_exe, \* key of an exe -> such a table
  own,            \* history: what each exe set last and has not erased
  history,        \* history_commands of the line editor
  announced,      \* the last length reply, as long as nothing changed
  reply           \* what the last call listed, and whether it was cut

aliases_vars == <<aliases, aliases_by_exe, own, history, announced, reply>>

KeysOf(S) == {Key(s) : s \in S}
NoLength == [what |-> "none", length |-> 0]
NoReply == [what |-> "none", items |-> <<>>, cut |-> FALSE]
NoTable == [k \in {} |-> "none"]
WithoutEntry(table, k) == [j \in DOMAIN table \ {k} |-> table[j]]
WithEntry(table, k, t) == [j \in DOMAIN table \cup {k} |-> IF j = k THEN t ELSE table[j]]

AliasesInit ==
  /\ aliases = NoTable /\ aliases_by_exe = NoTable
  /\ own = [p \in KeysOf(Exes) \X KeysOf(Sources) |-> "none"]
  /\ history = <<>> /\ announced = NoLength
  /\ reply = NoReply

\* Text in a reply takes two bytes per UTF-16 unit, or its ANSI bytes; a
\* terminator or an "=" is one unit more.
Size(name, unicode) == IF unicode THEN 2 * (Units(name) + 1) ELSE Bytes(name) + 1

\* find_alias_value: the exe's own table before the common one.
find_alias_value(exe, source) ==
  IF exe \in DOMAIN aliases_by_exe /\ source \in DOMAIN aliases_by_exe[exe]
  THEN aliases_by_exe[exe][source]
  ELSE IF source \in DOMAIN aliases THEN aliases[source] ELSE "none"

\* message_output_tail_capacity for a client that offers `offered' bytes.
message_output_tail_capacity(offered) == IF offered < BodyTail THEN offered ELSE BodyTail

-----------------------------------------------------------------------------
(* Changing the tables.                                                    *)

BugEraseEverywhere(exe, source) ==
  /\ aliases' = WithoutEntry(aliases, source)
  /\ aliases_by_exe' = [e \in DOMAIN aliases_by_exe |-> WithoutEntry(aliases_by_exe[e], source)]

\* The empty target: the common entry goes whoever set it; no table appears.
erase_alias(exe, source) ==
  /\ aliases' = WithoutEntry(aliases, source)
  /\ aliases_by_exe' = IF exe \in DOMAIN aliases_by_exe
       THEN [aliases_by_exe EXCEPT ![exe] = WithoutEntry(@, source)]
       ELSE aliases_by_exe

\* insert_or_assign_alias into the common table and into the exe's.
insert_or_assign_alias(exe, source, target) ==
  LET table == IF exe \in DOMAIN aliases_by_exe THEN aliases_by_exe[exe] ELSE NoTable
  IN  /\ aliases' = WithEntry(aliases, source, target)
      /\ aliases_by_exe' = WithEntry(aliases_by_exe, exe, WithEntry(table, source, target))

\* api_l3_add_alias.  A name over the input, or an empty source, changes nothing.
AddAlias(exe, source, target) ==
  /\ insert_or_assign_alias(Key(exe), Key(source), target)
  /\ own' = [own EXCEPT ![<<Key(exe), Key(source)>>] = target]
  /\ announced' = NoLength
  /\ reply' = NoReply /\ UNCHANGED history

EraseAlias(exe, source) ==
  /\ erase_alias(Key(exe), Key(source))
  /\ own' = [own EXCEPT ![<<Key(exe), Key(source)>>] = "none"]
  /\ announced' = NoLength
  /\ reply' = NoReply /\ UNCHANGED history

\* A submitted line enters the history (LineEditor has the rules).
Remember(command) ==
  /\ Len(history) < MaxCommands
  /\ history' = Append(history, command)
  /\ announced' = IF announced.what = "history" THEN NoLength ELSE announced
  /\ reply' = NoReply /\ UNCHANGED <<aliases, aliases_by_exe, own>>

\* api_l3_expunge_history.
expunge_history ==
  /\ history' = <<>>
  /\ announced' = IF announced.what = "history" THEN NoLength ELSE announced
  /\ reply' = NoReply /\ UNCHANGED <<aliases, aliases_by_exe, own>>

-----------------------------------------------------------------------------
(* Listing: first the length, then the text.                               *)

\* An exe without a table of its own sees the common one.
TableOf(exe) == IF exe \in DOMAIN aliases_by_exe THEN aliases_by_exe[exe] ELSE aliases

\* What a listing consists of: a sequence of entries, an entry a sequence of names.
Listing(what, exe) ==
  LET table == TableOf(Key(exe))
      Ordered(S) == SelectSeq(Sorted, LAMBDA k : k \in S)
      Entries(S, E(_)) == [i \in DOMAIN Ordered(S) |-> E(Ordered(S)[i])]
  IN  CASE what = "aliases" -> Entries(DOMAIN table, LAMBDA k : <<k, table[k]>>)
        [] what = "exes" -> Entries(DOMAIN aliases_by_exe, LAMBDA k : <<k>>)
        [] what = "history" -> [i \in DOMAIN history |-> <<history[i]>>]

EntrySize(entry, unicode) == FoldLeft(LAMBDA sum, name : sum + Size(name, unicode), 0, entry)

BugLengthInUnits(entries, unicode) ==
  LET Units1(entry) == FoldLeft(LAMBDA sum, name : sum + Units(name) + 1, 0, entry)
  IN  FoldLeft(LAMBDA sum, entry : sum + Units1(entry) * (IF unicode THEN 2 ELSE 1), 0, entries)

\* The loops that add up the lengths (std::accumulate).
ListingLength(entries, unicode) ==
  FoldLeft(LAMBDA sum, entry : sum + EntrySize(entry, unicode), 0, entries)

\* The loops that write: they stop at the first entry that does not fit.
Written(entries, unicode, capacity) ==
  LET Fits(n) == FoldLeft(LAMBDA sum, entry : sum + EntrySize(entry, unicode), 0,
                          SubSeq(entries, 1, n)) <= capacity
  IN  SubSeq(entries, 1, CHOOSE n \in 0..Len(entries) :
                           Fits(n) /\ (n = Len(entries) \/ ~Fits(n + 1)))

\* get_aliases_length, get_alias_exes_length, get_history_length.
GetLength(what, exe, unicode) ==
  /\ announced' = [what |-> what, exe |-> exe, unicode |-> unicode,
                   length |-> ListingLength(Listing(what, exe), unicode)]
  /\ reply' = NoReply /\ UNCHANGED <<aliases, aliases_by_exe, own, history>>

\* get_aliases, get_alias_exes, get_history.  Only the history says
\* buffer_too_small when it was cut, and then transfers no text.
GetListing(what, exe, unicode, offered) ==
  LET entries == Listing(what, exe)
      written == Written(entries, unicode, message_output_tail_capacity(offered))
      cut == what = "history" /\ Len(written) < Len(entries)
  IN  /\ reply' = [what |-> what, items |-> IF cut THEN <<>> ELSE written, cut |-> cut]
      /\ UNCHANGED <<aliases, aliases_by_exe, own, history, announced>>

\* api_l3_get_alias: the value with its terminator must fit behind the exe's name.
get_alias(exe, source, unicode, offered) ==
  LET value == find_alias_value(Key(exe), Key(source))
      name == Size(exe, unicode) - (IF unicode THEN 2 ELSE 1)
      cut == value # "none" /\ message_output_tail_capacity(offered) < name + Size(value, unicode)
  IN  /\ reply' = [what |-> "alias", cut |-> cut,
                   items |-> IF cut \/ value = "none" THEN <<>> ELSE <<<<value>>>>]
      /\ UNCHANGED <<aliases, aliases_by_exe, own, history, announced>>

\* Clients offer the announced length, or too little.
AliasesNext ==
  \/ \E exe \in Exes, source \in Sources :
       \/ EraseAlias(exe, source)
       \/ \E target \in Targets : AddAlias(exe, source, target)
       \/ \E unicode \in BOOLEAN, offered \in {4, BodyTail} :
            get_alias(exe, source, unicode, offered)
  \/ \E command \in Commands : Remember(command)
  \/ expunge_history
  \/ \E what \in {"aliases", "exes", "history"}, exe \in Exes, unicode \in BOOLEAN :
       GetLength(what, exe, unicode)
  \/ /\ announced.what # "none"
     /\ \E offered \in {4, announced.length} :
          GetListing(announced.what, announced.exe, announced.unicode, offered)

AliasesSpec == AliasesInit /\ [][AliasesNext]_aliases_vars

-----------------------------------------------------------------------------
\* An exe finds the target it set last, in whatever spelling, until it erases it
\* (api_handlers.hpp:60-69, 3247-3288): no other exe's AddConsoleAlias takes it away.
AliasKept ==
  \A e \in Exes, s \in Sources :
    own[<<Key(e), Key(s)>>] # "none" => find_alias_value(Key(e), Key(s)) = own[<<Key(e), Key(s)>>]

\* A client that offers the length it was told, and that msg.body can hold,
\* gets everything, in either encoding (api_handlers.hpp:3484-3504, 3566-3606).
LengthSuffices ==
  [][ announced.what # "none" /\ announced.length <= BodyTail
      /\ GetListing(announced.what, announced.exe, announced.unicode, announced.length)
      => reply'.items = Listing(announced.what, announced.exe) ]_aliases_vars
=============================================================================
