-------------------------- MODULE TopicFilterGrammar --------------------------
(***************************************************************************)
(* The grammar of topic filters as an automaton that reads a filter        *)
(* character by character (MQTT v5.0, sections 4.7.1 and 4.8.2), to judge  *)
(* the checks of topic_filter.rs, which split the filter into levels and   *)
(* look for the name of a share.                                           *)
(***************************************************************************)
EXTENDS Wire

Seqs == INSTANCE SequencesExt

\* A level is a text, one +, or one # that ends the filter; the name of a
\* share is a text that is not empty.
PhaseAfter(phase, character) ==
    LET wildcard == character \in {Plus, Hash}
        slash == character = Slash
    IN  CASE phase = "ShareStart" -> IF wildcard \/ slash THEN "Wrong" ELSE "ShareName"
          [] phase = "ShareName" -> IF wildcard THEN "Wrong"
                                    ELSE IF slash THEN "FilterStart" ELSE "ShareName"
          [] phase \in {"FilterStart", "LevelStart"} ->
                CASE slash -> "LevelStart"
                  [] character = Plus -> "Plus"
                  [] character = Hash -> "Hash"
                  [] OTHER -> "Text"
          [] phase = "Text" -> IF wildcard THEN "Wrong"
                               ELSE IF slash THEN "LevelStart" ELSE "Text"
          [] phase = "Plus" -> IF slash THEN "LevelStart" ELSE "Wrong"
          [] phase \in {"Hash", "Wrong"} -> "Wrong"

PhaseAtEnd(filter, start) == Seqs!FoldLeft(PhaseAfter, start, filter)

Accepting == {"LevelStart", "Text", "Plus", "Hash"}

\* Of MQTT v3.1.1, where a share is a filter like any other
GrammarAccepts(filter) == PhaseAtEnd(filter, "FilterStart") \in Accepting

\* Of MQTT v5.0: what follows $share/ is a name and a filter.
GrammarAcceptsV5(filter) ==
    IF StartsWith(filter, ShareFilter)
    THEN PhaseAtEnd(SubSeq(filter, Len(ShareFilter) + 1, Len(filter)), "ShareStart")
            \in Accepting
    ELSE GrammarAccepts(filter)

=============================================================================
