------------------------------- MODULE Notes -------------------------------
(***************************************************************************)
(* Which lots answer which flavours: notes.go and MatchesNotes in          *)
(* coffee.go, as operators.                                                *)
(*                                                                         *)
(* A text is a sequence of words and a word a sequence of its parts, so    *)
(* that "contains" is what it is in the code: grape is in grapefruit and   *)
(* apple in pineapple.  Two texts of the vocabulary share letters only     *)
(* where they share a part.  Case and outer blanks are left out.           *)
(***************************************************************************)
EXTENDS SequencesExt

Word(part)      == << <<part>> >>
Joined(p, q)    == << <<p, q>> >>
Phrase(p, q)    == << <<p>>, <<q>> >>

Words(parts) == { Word(p) : p \in parts }

(* Members by the key of their category, which is written without blanks.  *)
noteCategories ==
  LET berries == { Joined(p, "berry") : p \in {"blue", "straw", "rasp"} }
      grapefruit   == Joined("grape", "fruit")
      blackcurrant == Joined("black", "currant")
      cranberry    == Joined("cran", "berry")
  IN
  (<<"floral">> :> Words({"jasmine", "bergamot", "rose", "lavender", "elderflower",
                          "hibiscus", "chamomile"}) \cup {Phrase("orange", "blossom")}) @@
  (<<"fruit", "y">> :> berries \cup {Phrase("stone", "fruit"), Joined("pine", "apple")} \cup
                       Words({"berry", "peach", "apricot", "cherry", "plum", "apple", "grape",
                              "tropical", "mango", "papaya", "citrus"})) @@
  (<<"berry">> :> berries \cup {blackcurrant, Joined("black", "berry"), cranberry}) @@
  (<<"citrus">> :> {grapefruit} \cup Words({"orange", "lemon", "lime", "bergamot",
                                            "tangerine", "mandarin"})) @@
  (<<"stone", "fruit">> :> Words({"peach", "apricot", "nectarine", "plum", "cherry"})) @@
  (<<"chocolate">> :> {Phrase("cocoa", "nib"), Phrase("dark", "chocolate"),
                       Phrase("milk", "chocolate"), Joined("brown", "ie")} \cup
                      Words({"cocoa", "cacao", "fudge"})) @@
  (<<"nut", "ty">> :> Words({"almond", "pecan", "cashew"}) \cup
                      { Joined(p, "nut") : p \in {"hazel", "pea", "wal"} }) @@
  (<<"sweet">> :> {Phrase("brown", "sugar"), Joined("syrup", "y")} \cup
                  Words({"caramel", "honey", "molasses", "syrup", "toffee", "vanilla", "maple"})) @@
  (<<"spice">> :> {Joined("nut", "meg")} \cup
                  Words({"cinnamon", "clove", "cardamom", "pepper", "anise"})) @@
  (<<"bright">> :> {grapefruit, blackcurrant, cranberry,
                    Phrase("green", "apple"), Phrase("red", "apple")} \cup
                   Words({"citrus", "lime", "lemon", "orange", "bergamot", "tomato"})) @@
  (<<"wine", "y">> :> Words({"grape", "wine", "fermented", "boozy", "rum"})) @@
  (<<"earthy">> :> {Phrase("forest", "floor")} \cup
                   Words({"tobacco", "cedar", "leather", "mushroom"})) @@
  (<<"tea">> :> {Phrase("black", "tea"), Phrase("green", "tea"), Phrase("earl", "grey")} \cup
                Words({"bergamot", "jasmine"})) @@
  (<<"savoury">> :> Words({"tomato", "herbal", "olive", "brothy"}))

acidityWords ==
  Words({"bright", "acid", "lively", "juicy", "sharp", "tart", "crisp"}) \cup
  {Joined("acid", "ity"), Joined("acid", "ic")}

-----------------------------------------------------------------------------

(* The members of S in the order that a relation puts them in: each stands *)
(* behind as many as come before it.                                       *)
InOrder(S, before) ==
  [ k \in 1 .. Cardinality(S) |->
      CHOOSE i \in S : Cardinality({ j \in S : <<j, i>> \in before }) = k - 1 ]

(* The words that normalise takes off: "notes of" and "hints of" anywhere, *)
(* the others only in front of another word.                               *)
Filler(text, i) ==
  LET At(j, word) == j \in DOMAIN text /\ text[j] = <<word>> IN
  \/ \E w \in {"notes", "hints"} : (At(i, w) /\ At(i + 1, "of")) \/ (At(i - 1, w) /\ At(i, "of"))
  \/ At(i, "a") /\ At(i + 1, "bit") /\ i + 1 < Len(text)
  \/ At(i - 1, "a") /\ At(i, "bit") /\ i < Len(text)
  \/ i < Len(text) /\ \E w \in {"quite", "very", "really", "pronounced", "some"} : At(i, w)

normalise(text) ==
  LET places == { i \in DOMAIN text : ~Filler(text, i) }
      kept   == InOrder(places, { p \in places \X places : p[1] < p[2] })
  IN  [ i \in DOMAIN kept |-> text[kept[i]] ]

isFiller(word) ==
  word \in { <<w>> : w \in {"and", "with", "the", "for", "but", "not", "too"} }

(* Words of one or two letters. *)
IsShort(word) == word \in { <<w>> : w \in {"a", "of", "or", "no"} }

(* The request as a whole, and each word that could carry a flavour. *)
termsOf(request) ==
  LET text == normalise(request)
  IN  IF text = <<>> THEN {}
      ELSE {text} \cup IF Len(text) = 1 THEN {}
                       ELSE { <<text[i]>> : i \in { j \in DOMAIN text :
                                 ~IsShort(text[j]) /\ ~isFiller(text[j]) } }

(* A term stands for itself and for the members of its category. *)
expand(term) ==
  LET text == normalise(term)
      key  == FlattenSeq(text)
  IN  IF text = <<>> THEN {}
      ELSE {text} \cup IF text \in acidityWords THEN noteCategories[<<"bright">>]
                       ELSE IF key \in DOMAIN noteCategories THEN noteCategories[key]
                       ELSE {}

(* A text as it is spelled: its parts, with a blank between two words. *)
Spelled(text) ==
  FlattenSeq([ i \in DOMAIN text |-> IF i = 1 THEN text[i] ELSE <<"blank">> \o text[i] ])

(* strings.Contains *)
ContainsText(text, part) ==
  LET t == Spelled(text)
      p == Spelled(part)
  IN  \E from \in 0 .. Len(t) - Len(p) : SubSeq(t, from + 1, from + Len(p)) = p

mentions(notes, candidate) == \E note \in notes : ContainsText(note, candidate)

hasNote(notes, want) ==
  \E term \in termsOf(want) : \E candidate \in expand(term) : mentions(notes, candidate)

(* MatchesNotes counts these and divides by how many were asked for, which *)
(* is the same for every lot.                                              *)
MatchesNotes(notes, wanted) ==
  Cardinality({ i \in DOMAIN wanted : hasNote(notes, wanted[i]) })
=============================================================================
