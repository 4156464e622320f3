--------------------- MODULE ProviderConfiguration_proofs ---------------------
(***************************************************************************)
(* What canonicalization promises for every submitted configuration, of    *)
(* any path: its output is a configuration it accepts again, the path      *)
(* never grows, and once the path ends in neither a blank nor a slash a    *)
(* further pass changes nothing.                                           *)
(***************************************************************************)
EXTENDS ProviderConfiguration, FiniteSetTheorems, TLAPS

LEMMA TrimmedLength ==
  ASSUME NEW text \in Seq(Characters), NEW blank
  PROVE  LET kept == {i \in 1..Len(text) :
                        \E j \in i..Len(text) : text[j] # blank} IN
         /\ IsFiniteSet(kept)
         /\ Cardinality(kept) \in 0..Len(text)
         /\ kept = 1..Len(text) => Cardinality(kept) = Len(text)
<1> DEFINE kept == {i \in 1..Len(text) :
                      \E j \in i..Len(text) : text[j] # blank}
<1>1. Len(text) \in Nat
  OBVIOUS
<1>2. IsFiniteSet(1..Len(text)) /\ Cardinality(1..Len(text)) = Len(text)
  BY <1>1, FS_Interval
<1>3. IsFiniteSet(kept) /\ Cardinality(kept) <= Cardinality(1..Len(text))
  <2>1. kept \subseteq 1..Len(text)
    OBVIOUS
  <2> HIDE DEF kept
  <2> QED
    BY <1>2, <2>1, FS_Subset
<1>4. Cardinality(kept) \in Nat
  BY <1>3, FS_CardinalityType
<1> HIDE DEF kept
<1>5. /\ IsFiniteSet(kept)
      /\ Cardinality(kept) \in 0..Len(text)
      /\ kept = 1..Len(text) => Cardinality(kept) = Len(text)
  BY <1>1, <1>2, <1>3, <1>4
<1> QED
  BY <1>5 DEF kept

(* Trimming keeps a prefix, and all of a text that does not end in the     *)
(* trimmed character.                                                      *)
LEMMA Trimming ==
  ASSUME NEW text \in Seq(Characters), NEW blank
  PROVE  /\ TrimEnd(text, blank) \in Seq(Characters)
         /\ Len(TrimEnd(text, blank)) <= Len(text)
         /\ TrimEnd(text, blank) # <<>> =>
              text # <<>> /\ TrimEnd(text, blank)[1] = text[1]
         /\ text = <<>> \/ text[Len(text)] # blank
              => TrimEnd(text, blank) = text
<1> DEFINE kept == {i \in 1..Len(text) :
                      \E j \in i..Len(text) : text[j] # blank}
           n == Cardinality(kept)
<1>1. n \in 0..Len(text) /\ (kept = 1..Len(text) => n = Len(text))
  BY TrimmedLength
<1>2. TrimEnd(text, blank) = SubSeq(text, 1, n)
  BY DEF TrimEnd
<1>3. text = <<>> \/ text[Len(text)] # blank => kept = 1..Len(text)
  <2>1. CASE text = <<>>
    BY <2>1
  <2>2. CASE text[Len(text)] # blank
    <3>1. ASSUME NEW i \in 1..Len(text)
          PROVE  i \in kept
      <4>1. Len(text) \in i..Len(text)
        OBVIOUS
      <4> QED
        BY <2>2, <4>1
    <3> QED
      BY <3>1
  <2> QED
    BY <2>1, <2>2
<1> HIDE DEF n, kept
<1> QED
  BY <1>1, <1>2, <1>3

(* The components of an accepted configuration and of its canonical form.  *)
LEMMA CanonicalForm ==
  ASSUME NEW c \in SubmittedConfigurations, Acceptable(c)
  PROVE  /\ StrippedPath(c) \in Seq(Characters)
         /\ Len(StrippedPath(c)) <= Len(c.path)
         /\ Canonical(c) \in SubmittedConfigurations
         /\ Canonical(c).host \in {"name", "ipv6"}
         /\ Len(Canonical(c).path) <= Len(c.path)
<1>1. c.path \in Seq(Characters) /\ (c.path # <<>> => c.path[1] = "slash")
  BY DEF SubmittedConfigurations
<1>2. /\ StrippedPath(c) \in Seq(Characters)
      /\ Len(StrippedPath(c)) <= Len(c.path)
      /\ StrippedPath(c) # <<>> => StrippedPath(c)[1] = "slash"
  <2>1. CASE c.query = "absent"
    BY <1>1, <2>1, Trimming DEF StrippedPath
  <2>2. CASE c.query # "absent"
    BY <1>1, <2>2 DEF StrippedPath
  <2> QED
    BY <2>1, <2>2
<1>3. LET path == TrimEnd(StrippedPath(c), "slash") IN
      /\ path \in Seq(Characters)
      /\ Len(path) <= Len(c.path)
      /\ path # <<>> => path[1] = "slash"
  BY <1>1, <1>2, Trimming
<1>4. Casefold(c.host) \in {"name", "ipv6"}
      /\ (c.host = "ipv6" <=> Casefold(c.host) = "ipv6")
  BY DEF SubmittedConfigurations, Acceptable, Casefold, Hosts
<1> QED
  BY <1>1, <1>2, <1>3, <1>4
     DEF SubmittedConfigurations, Canonical, Hosts, Ports, Acceptable

(* What the provider has written, put_draft has stored and publish reads   *)
(* back, the provider accepts: a publication is never refused because of   *)
(* the form of the stored draft.                                           *)
THEOREM CompiledIsAccepted ==
  ASSUME NEW c \in SubmittedConfigurations, Compile(c) # None,
         None \notin SubmittedConfigurations
  PROVE  /\ Compile(c) \in SubmittedConfigurations
         /\ Compile(Compile(c)) # None
         /\ Len(Compile(c).path) <= Len(c.path)
<1>1. Acceptable(c) /\ Compile(c) = Canonical(c)
  BY DEF Compile
<1>2. /\ Canonical(c) \in SubmittedConfigurations
      /\ Canonical(c).host \in {"name", "ipv6"}
      /\ Len(Canonical(c).path) <= Len(c.path)
  BY <1>1, CanonicalForm
<1>3. Acceptable(Canonical(c))
  BY <1>1, <1>2
     DEF Acceptable, Parses, Canonical, Casefold, Ports,
         SubmittedConfigurations, Hosts
<1>4. Canonical(Canonical(c)) \in SubmittedConfigurations
  BY <1>2, <1>3, CanonicalForm
<1> QED
  BY <1>1, <1>2, <1>3, <1>4 DEF Compile

(* Canonicalization is not idempotent, but only a path that ends in a      *)
(* blank or a slash is still to change: with any other the published       *)
(* configuration, and with it its hash, is the stored draft.               *)
THEOREM CompilationSettles ==
  ASSUME NEW c \in SubmittedConfigurations, Compile(c) # None,
         LET path == Compile(c).path IN
         path = <<>> \/ path[Len(path)] = "letter"
  PROVE  Compile(Compile(c)) = Compile(c)
<1> DEFINE d == Canonical(c)
<1>1. Acceptable(c) /\ Compile(c) = d
  BY DEF Compile
<1>2. d \in SubmittedConfigurations /\ d.host \in {"name", "ipv6"}
  BY <1>1, CanonicalForm
<1>3. d.path \in Seq(Characters)
  BY <1>2 DEF SubmittedConfigurations
<1>4. d.path = <<>> \/ d.path[Len(d.path)] = "letter"
  BY <1>1
<1>5. StrippedPath(d) = d.path
  <2> HIDE DEF d
  <2> QED
    BY <1>3, <1>4, Trimming DEF StrippedPath
<1>6. TrimEnd(StrippedPath(d), "slash") = d.path
  <2> HIDE DEF d
  <2> QED
    BY <1>3, <1>4, <1>5, Trimming
<1>7. /\ d.form = "url" /\ d.padded = FALSE /\ d.scheme = "https"
      /\ d.credentials = FALSE /\ d.query = "absent"
      /\ d.bracketed = (d.host = "ipv6") /\ d.port \in {"8443", "absent"}
  BY <1>1 DEF Canonical, Acceptable, Parses, SubmittedConfigurations, Casefold,
              Hosts
<1>8. Acceptable(d)
  <2> HIDE DEF d
  <2> QED
    BY <1>2, <1>7 DEF Acceptable, Parses, Casefold
<1>9. Canonical(d) = d
  <2>1. d = [form |-> "url", padded |-> FALSE, scheme |-> "https",
             credentials |-> FALSE, host |-> d.host,
             bracketed |-> d.bracketed, port |-> d.port, path |-> d.path,
             query |-> "absent"]
    BY DEF Canonical
  <2> HIDE DEF d
  <2> QED
    BY <2>1, <1>2, <1>6, <1>7 DEF Canonical, Casefold
<1> QED
  BY <1>1, <1>8, <1>9 DEF Compile
=============================================================================
