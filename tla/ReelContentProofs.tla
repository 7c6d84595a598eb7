-------------------------- MODULE ReelContentProofs --------------------------
(***************************************************************************)
(* Proofs about ReelContent, for any listings, settings, edits, other reels *)
(* and numbers of jobs, requests and tries: the record catches up with the  *)
(* newest listing, the video shows what the row asks for, the captions of a *)
(* reel agree wherever they are, what counts as published was posted with  *)
(* the words of the plan on record, and the editor finds the reel in the   *)
(* list and plays its video.                                               *)
(*                                                                         *)
(* First what the operators give: a plan has words for every platform, the *)
(* orders leave photos of the listing, cues in order and segments one after *)
(* the other are apart, a snapshot is a cue for each captioned slide, the  *)
(* pages of a list are the list and the pieces of a file are the file.     *)
(* Then the state, where each stage hands on what it was given.            *)
(***************************************************************************)
EXTENDS ReelContent, FiniteSetTheorems, SequenceTheorems, TLAPS

-----------------------------------------------------------------------------
(* Texts: the words a platform is given by default. *)

\* A caption of five fields of which the first has words has words.
LEMMA FiveFields ==
  ASSUME NEW W, NEW s \in Seq(Seq(W)), Len(s) = 5, s[1] # <<>>
  PROVE  FlattenSeq(s) # <<>>
<1> DEFINE g == [i \in 1..5 |-> CASE i = 1 -> s[1]
                                  [] i = 2 -> s[1] \o s[2]
                                  [] i = 3 -> (s[1] \o s[2]) \o s[3]
                                  [] i = 4 -> ((s[1] \o s[2]) \o s[3]) \o s[4]
                                  [] i = 5 -> (((s[1] \o s[2]) \o s[3]) \o s[4]) \o s[5]]
           Flattens(f) == f = [i \in 1..Len(s) |-> IF i = 1 THEN s[i]
                                                   ELSE f[i - 1] \o s[i]]
           f == CHOOSE f : Flattens(f)
<1>1. \A i \in 1..5 : s[i] \in Seq(W)
  BY ElementOfSeq
<1>2. Flattens(g)
  <2>1. ASSUME NEW i \in 1..5
        PROVE  g[i] = (IF i = 1 THEN s[i] ELSE g[i - 1] \o s[i])
    <3>1. i \in {1, 2, 3, 4, 5}
      OBVIOUS
    <3> QED
      BY <3>1
  <2> HIDE DEF g
  <2>2. g = [i \in 1..5 |-> g[i]]
    BY DEF g
  <2> QED
    BY <2>1, <2>2
<1> HIDE DEF g
<1>3. Flattens(f)
  BY <1>2, Zenon
<1>4. FlattenSeq(s) = f[5]
  BY DEF FlattenSeq
<1> HIDE DEF f
<1>10. \A i \in 1..5 : f[i] = IF i = 1 THEN s[i] ELSE f[i - 1] \o s[i]
  BY <1>3, Zenon
<1>5. /\ f[1] = s[1]
      /\ f[2] = f[1] \o s[2] /\ f[3] = f[2] \o s[3]
      /\ f[4] = f[3] \o s[4] /\ f[5] = f[4] \o s[5]
  <2>1. f[1] = s[1]
    BY <1>10
  <2>2. f[2] = f[1] \o s[2]
    BY <1>10, 2 \in 1..5, 2 # 1, 2 - 1 = 1
  <2>3. f[3] = f[2] \o s[3]
    BY <1>10, 3 \in 1..5, 3 # 1, 3 - 1 = 2
  <2>4. f[4] = f[3] \o s[4]
    BY <1>10, 4 \in 1..5, 4 # 1, 4 - 1 = 3
  <2>5. f[5] = f[4] \o s[5]
    BY <1>10, 5 \in 1..5, 5 # 1, 5 - 1 = 4
  <2> QED
    BY <2>1, <2>2, <2>3, <2>4, <2>5
<1> HIDE DEF Flattens
<1>6. ASSUME NEW t \in Seq(W), NEW u \in Seq(W), t # <<>>
      PROVE  t \o u \in Seq(W) /\ t \o u # <<>>
  BY <1>6
<1>7. f[2] \in Seq(W) /\ f[2] # <<>>
  BY <1>1, <1>5, <1>6
<1>8. f[3] \in Seq(W) /\ f[3] # <<>>
  BY <1>1, <1>5, <1>6, <1>7
<1>9. f[4] \in Seq(W) /\ f[4] # <<>>
  BY <1>1, <1>5, <1>6, <1>8
<1> QED
  BY <1>1, <1>4, <1>5, <1>6, <1>9

\* Tuples are sequences.
LEMMA OneWord ==
  ASSUME NEW W, NEW a \in W
  PROVE  <<a>> \in Seq(W) /\ <<a>> # <<>>
  OBVIOUS

\* A tuple of two.
LEMMA TwoWords ==
  ASSUME NEW W, NEW a \in W, NEW b \in W
  PROVE  <<a, b>> \in Seq(W) /\ <<a, b>> # <<>>
  OBVIOUS

\* A tuple of three.
LEMMA ThreeWords ==
  ASSUME NEW W, NEW a \in W, NEW b \in W, NEW c \in W
  PROVE  <<a, b, c>> \in Seq(W) /\ <<a, b, c>> # <<>>
  OBVIOUS

\* A layout of a first field and four more.
LEMMA OneAndFour ==
  ASSUME NEW a, NEW b, NEW c, NEW d, NEW e, NEW t, t = <<a>> \o <<b, c, d, e>>
  PROVE  /\ DOMAIN t = 1..5
         /\ t[1] = a /\ t[2] = b /\ t[3] = c /\ t[4] = d /\ t[5] = e
  OBVIOUS

\* The words there are: those of listings, and those of the labels.
Words == STRING \cup {"More", "properties", "on", "Property:", "Similar",
                      "required?", "Agency", "PSRA:", "site"}

\* What is made of texts is made of words.
LEMMA TextsAreWords ==
  ASSUME NEW text \in Seq(STRING)
  PROVE  text \in Seq(Words)
<1>1. STRING \subseteq Words
  BY DEF Words
<1> QED
  BY <1>1, SeqMonotonic

\* A line with a label has words, when there is something to label.
LEMMA LabelledWords ==
  ASSUME NEW W, NEW label \in Seq(W), NEW text \in Seq(W)
  PROVE  /\ Labelled(label, text) \in Seq(W)
         /\ text # <<>> => Labelled(label, text) # <<>>
  BY DEF Labelled

\* The words of a listing are texts.
LEMMA ListingHasWords ==
  ASSUME NEW i \in DOMAIN Listings
  PROVE  WordsOfListing(Listings[i])
  BY ContentAssumption DEF ContentAssumption

\* A caption that begins with a label and a link has words.
LEMMA CaptionHasWords ==
  ASSUME NEW l, WordsOfListing(l), NEW url \in Seq(Words), url # <<>>,
         NEW first \in {"property_url", "property_link", "similar_required"}
  PROVE  Caption(<<first>> \o Contacts, l, url) # <<>>
<1> DEFINE layout == <<first>> \o Contacts
           s == [i \in DOMAIN layout |-> Field(layout[i], l, url)]
<1>1. /\ DOMAIN layout = 1..5
      /\ layout[1] = first /\ layout[2] = "agent_name" /\ layout[3] = "agent_phone"
      /\ layout[4] = "agent_email" /\ layout[5] = "agency_psra"
  <2> DEFINE b == "agent_name"
             c == "agent_phone"
             d == "agent_email"
             e == "agency_psra"
  <2>1. layout = <<first>> \o <<b, c, d, e>>
    BY DEF Contacts
  <2> HIDE DEF layout, b, c, d, e
  <2>2. /\ DOMAIN layout = 1..5
        /\ layout[1] = first /\ layout[2] = b /\ layout[3] = c /\ layout[4] = d
        /\ layout[5] = e
    BY <2>1, OneAndFour
  <2> QED
    BY <2>2 DEF b, c, d, e
<1>2. DOMAIN s = 1..5 /\ DOMAIN layout = 1..5
  BY <1>1
<1>3. Field(first, l, url) \in Seq(Words) /\ Field(first, l, url) # <<>>
  <2>1. SiteOf(url) \in Seq(Words) /\ SiteOf(url) # <<>>
    <3>1. url[1] \in Words
      BY EmptySeq, ElementOfSeq
    <3> QED
      BY <3>1, OneWord DEF SiteOf
  <2>6. <<"Property:">> \in Seq(Words)
    BY OneWord DEF Words
  <2>7. <<"Similar", "required?">> \in Seq(Words)
    BY TwoWords DEF Words
  <2>8. <<"More", "properties", "on">> \in Seq(Words)
    BY ThreeWords DEF Words
  <2>3. CASE first = "property_url"
    <3>1. Field(first, l, url) = Labelled(<<"More", "properties", "on">>, SiteOf(url))
      BY <2>3 DEF Field
    <3> QED
      BY <2>1, <2>8, <3>1, LabelledWords
  <2>4. CASE first = "property_link"
    <3>1. Field(first, l, url) = Labelled(<<"Property:">>, url)
      BY <2>4 DEF Field
    <3> QED
      BY <2>6, <3>1, LabelledWords
  <2>5. CASE first = "similar_required"
    <3>1. Field(first, l, url) = Labelled(<<"Similar", "required?">>, SiteOf(url))
      BY <2>5 DEF Field
    <3> QED
      BY <2>1, <2>7, <3>1, LabelledWords
  <2> QED
    BY <2>3, <2>4, <2>5
<1>4. /\ Field("agent_name", l, url) \in Seq(Words)
      /\ Field("agent_phone", l, url) \in Seq(Words)
      /\ Field("agent_email", l, url) \in Seq(Words)
      /\ Field("agency_psra", l, url) \in Seq(Words)
  <2>1. Field("agent_name", l, url) = l.agent /\ Field("agent_phone", l, url) = AgentPhone(l)
    BY DEF Field
  <2>2. Field("agent_email", l, url) = l.email
        /\ Field("agency_psra", l, url) = Labelled(<<"Agency", "PSRA:">>, l.psra)
    BY DEF Field
  <2>3. QED
    <3>1. <<"Agency", "PSRA:">> \in Seq(Words)
      BY TwoWords DEF Words
    <3>2. /\ l.agent \in Seq(Words) /\ l.mobile \in Seq(Words)
          /\ l.number \in Seq(Words) /\ l.email \in Seq(Words)
          /\ l.psra \in Seq(Words)
      BY TextsAreWords DEF WordsOfListing
    <3>3. AgentPhone(l) \in Seq(Words)
      BY <3>2 DEF AgentPhone
    <3>4. Labelled(<<"Agency", "PSRA:">>, l.psra) \in Seq(Words)
      BY <3>1, <3>2, LabelledWords
    <3> QED
      BY <2>1, <2>2, <3>2, <3>3, <3>4
<1> HIDE DEF s
<1>5. ASSUME NEW i \in 1..5
      PROVE  s[i] \in Seq(Words)
  <2>1. i \in {1, 2, 3, 4, 5}
    OBVIOUS
  <2>2. s[i] = Field(layout[i], l, url)
    BY <1>2 DEF s
  <2> QED
    BY <1>1, <1>3, <1>4, <2>1, <2>2
<1>6. s = [i \in 1..5 |-> s[i]]
  BY <1>2 DEF s
<1>7. s \in Seq(Seq(Words)) /\ Len(s) = 5
  BY <1>5, <1>6
<1>8. s[1] # <<>>
  BY <1>1, <1>2, <1>3 DEF s
<1>9. FlattenSeq(s) # <<>>
  BY <1>7, <1>8, FiveFields
<1> QED
  BY <1>9, Zenon DEF Caption, s

\* The page of a property has an address.
LEMMA UrlHasWords ==
  ASSUME NEW l, WordsOfListing(l)
  PROVE  PublicUrl(l) \in Seq(Words) /\ PublicUrl(l) # <<>>
<1>1. l.link \in Words /\ l.slug \in Words /\ "site" \in Words
  BY DEF WordsOfListing, Words
<1>2. <<l.link>> \in Seq(Words) /\ <<l.link>> # <<>>
  BY <1>1, OneWord
<1>3. <<"site", l.slug>> \in Seq(Words) /\ <<"site", l.slug>> # <<>>
  BY <1>1, TwoWords
<1> QED
  BY <1>2, <1>3, Zenon DEF PublicUrl

\* The words a platform is given by default are never none, whatever the listing
\* leaves out: they have at least the address of its page.
THEOREM DefaultHasWords ==
  ASSUME NEW l, WordsOfListing(l), NEW p \in DOMAIN PlatformConfigs
  PROVE  DefaultText(l, p, PublicUrl(l)) # <<>>
<1> DEFINE url == PublicUrl(l)
<1>1. url \in Seq(Words) /\ url # <<>>
  BY UrlHasWords
<1> HIDE DEF url
<1>2. CommonText(l, url) # <<>>
  BY <1>1, CaptionHasWords DEF CommonText, LayoutOf, SimilarLayout, DefaultLayout
<1>3. LinkText(l, url) # <<>>
  BY <1>1, CaptionHasWords DEF LinkText, LayoutOf, SimilarLayout, LinkLayout
<1>4. GoogleText(l, url) # <<>>
  <2> DEFINE site == Labelled(<<"More", "properties", "on">>, SiteOf(url))
             before == l.title \o l.price
  <2>1. site \in Seq(Words) /\ site # <<>>
    <3>1. url[1] \in Words
      BY <1>1, EmptySeq, ElementOfSeq
    <3>2. <<"More", "properties", "on">> \in Seq(Words)
      BY ThreeWords DEF Words
    <3>3. SiteOf(url) \in Seq(Words) /\ SiteOf(url) # <<>>
      BY <3>1, OneWord DEF SiteOf
    <3> QED
      BY <3>2, <3>3, LabelledWords
  <2> HIDE DEF site
  <2>2. before \in Seq(Words) /\ l.agent \in Seq(Words)
    <3>1. l.title \in Seq(Words) /\ l.price \in Seq(Words) /\ l.agent \in Seq(Words)
      BY TextsAreWords DEF WordsOfListing
    <3> QED
      BY <3>1
  <2> HIDE DEF before
  <2>3. GoogleText(l, url) = (before \o site) \o l.agent
    BY Zenon DEF GoogleText, before, site
  <2> QED
    BY <2>1, <2>2, <2>3
<1>5. PlatformConfigs[p].text \in {"common", "link", "google"}
  BY DEF PlatformConfigs, Config, Tiktok, Instagram, Linkedin, Youtube, Facebook,
         Google, Pinterest
<1>6. DefaultText(l, p, url) # <<>>
  BY <1>2, <1>3, <1>4, <1>5 DEF DefaultText
<1> QED
  BY <1>6 DEF url

\* The plan of a job has words for every platform it names.
LEMMA PlansHaveWords ==
  ASSUME NEW targets \in TargetPlans, NEW p \in DOMAIN targets
  PROVE  targets[p].text # <<>>
<1>1. PICK c \in Contexts, i \in DOMAIN Listings : targets = Plans[c][i]
  BY DEF TargetPlans
<1> DEFINE l == Listings[i]
<1>2. WordsOfListing(l)
  BY ListingHasWords
<1>3. targets = Targets(c, l)
  BY <1>1 DEF Plans
<1> HIDE DEF l
<1>4. p \in DOMAIN PlatformConfigs
  BY <1>3 DEF Targets
<1>5. \E text : targets[p].text = OrElse(text, DefaultText(l, p, PublicUrl(l)))
  BY <1>3 DEF Targets
<1> QED
  BY <1>2, <1>4, <1>5, DefaultHasWords DEF OrElse

-----------------------------------------------------------------------------
(* Recursive functions, and loops that keep some elements. *)

LEMMA UpTo ==
  ASSUME NEW n \in Nat, NEW T, 0 \in T,
         \A m \in 0 .. n : m # n /\ m \in T => m + 1 \in T
  PROVE  \A m \in 0 .. n : m \in T
<1> DEFINE W == {m \in 0 .. n : m \notin T}
<1> SUFFICES ASSUME W # {} PROVE FALSE
  OBVIOUS
<1>1. W \subseteq Nat
  OBVIOUS
<1> HIDE DEF W
<1>2. PICK m \in W : \A k \in W : <<k, m>> \notin OpToRel(<, Nat)
  BY <1>1, WFMin, NatLessThanWellFounded
<1>3. m \in 0 .. n /\ m \notin T /\ m # 0
  BY DEF W
<1>4. m - 1 \in 0 .. n /\ m - 1 # n /\ (m - 1) + 1 = m
  BY <1>3
<1>5. m - 1 \in W
  BY <1>3, <1>4 DEF W
<1>6. <<m - 1, m>> \in OpToRel(<, Nat)
  BY <1>3 DEF OpToRel
<1> QED BY <1>2, <1>5, <1>6

\* What a recursive function computes in n steps, each a value of A.
Computes(f, n, A, base, step) ==
  /\ f \in [0 .. n -> A]
  /\ f = [k \in 0 .. n |-> IF k = 0 THEN base ELSE step[<<k, f[k - 1]>>]]

\* A recursive function exists: its first n values determine the next.
LEMMA Recursion ==
  ASSUME NEW n \in Nat, NEW A, NEW base \in A, NEW step \in [(1 .. n) \X A -> A]
  PROVE  \E f : Computes(f, n, A, base, step)
<1> DEFINE Some(m) == \E f : Computes(f, m, A, base, step)
           T == {m \in 0 .. n : Some(m)}
<1>1. Some(0)
  <2> DEFINE f == [k \in 0 .. 0 |-> base]
  <2>1. f \in [0 .. 0 -> A] /\ \A k \in 0 .. 0 : k = 0 /\ f[k] = base
    OBVIOUS
  <2>2. f = [k \in 0 .. 0 |-> IF k = 0 THEN base ELSE step[<<k, f[k - 1]>>]]
    BY <2>1
  <2> HIDE DEF f
  <2>3. Computes(f, 0, A, base, step)
    BY <2>1, <2>2, Zenon DEF Computes
  <2> QED BY <2>3
<1>2. ASSUME NEW m \in 0 .. n, m # n, Some(m)  PROVE m + 1 \in 0 .. n /\ Some(m + 1)
  <2>1. PICK f : Computes(f, m, A, base, step)
    BY <1>2
  <2> DEFINE h == [k \in 0 .. m + 1 |-> IF k = m + 1 THEN step[<<m + 1, f[m]>>] ELSE f[k]]
  <2>9. f \in [0 .. m -> A]
    BY <2>1 DEF Computes
  <2>10. m \in 0 .. m /\ m + 1 \in 1 .. n /\ m + 1 \in 0 .. n
    BY <1>2
  <2>2. f \in [0 .. m -> A] /\ f[m] \in A /\ m + 1 \in 1 .. n
    BY <2>9, <2>10
  <2>3. step[<<m + 1, f[m]>>] \in A
    BY <2>2
  <2>4. h \in [0 .. m + 1 -> A]
    BY <2>2, <2>3
  <2>5. ASSUME NEW k \in 0 .. m + 1
        PROVE  h[k] = IF k = 0 THEN base ELSE step[<<k, h[k - 1]>>]
    <3>1. CASE k = m + 1
      <4>1. k # 0 /\ k - 1 = m /\ h[m] = f[m]
        BY <3>1
      <4> QED BY <3>1, <4>1
    <3>2. CASE k \in 0 .. m
      <4>1. h[k] = f[k] /\ f[k] = IF k = 0 THEN base ELSE step[<<k, f[k - 1]>>]
        BY <2>1, <3>2 DEF Computes
      <4>2. k # 0 => k - 1 \in 0 .. m /\ h[k - 1] = f[k - 1]
        BY <3>2
      <4> HIDE DEF h
      <4> QED BY <4>1, <4>2
    <3> QED BY <3>1, <3>2
  <2>6. h = [k \in 0 .. m + 1 |-> h[k]]
    OBVIOUS
  <2> HIDE DEF h
  <2>7. h = [k \in 0 .. m + 1 |-> IF k = 0 THEN base ELSE step[<<k, h[k - 1]>>]]
    BY <2>5, <2>6
  <2>8. Computes(h, m + 1, A, base, step)
    BY <2>4, <2>7, Zenon DEF Computes
  <2> QED BY <2>10, <2>8
<1> HIDE DEF Some
<1>3. 0 \in T /\ \A m \in 0 .. n : m # n /\ m \in T => m + 1 \in T
  BY <1>1, <1>2
<1> HIDE DEF T
<1>4. n \in T
  BY <1>3, UpTo
<1> QED BY <1>4 DEF T, Some

\* The elements of t are elements of s, in the order they have there.
Follows(t, s) ==
  \A b \in 1..Len(t) : \E i \in 1..Len(s) :
    /\ t[b] = s[i]
    /\ \A a \in 1..b : a # b => \E h \in 1..i : h # i /\ t[a] = s[h]

\* The elements that are kept are those of the set, in the order they had.
LEMMA OnlyKeeps ==
  ASSUME NEW R, NEW s \in Seq(R), NEW S
  PROVE  /\ Only(s, S) \in Seq(R)
         /\ Len(Only(s, S)) <= Len(s)
         /\ Range(Only(s, S)) = Range(s) \cap S
         /\ Follows(Only(s, S), s)
<1> DEFINE n == Len(s)
           A == Seq(R)
           step == [x \in (1 .. n) \X A |->
                      IF s[x[1]] \in S THEN Append(x[2], s[x[1]]) ELSE x[2]]
           Good(t, k) == /\ t \in Seq(R)
                         /\ Len(t) <= k
                         /\ \A i \in 1 .. k : s[i] \in S
                              => \E j \in 1 .. Len(t) : t[j] = s[i]
                         /\ \A b \in 1 .. Len(t) : \E i \in 1 .. k :
                              /\ t[b] = s[i] /\ s[i] \in S
                              /\ \A a \in 1 .. b : a # b => \E h \in 1 .. i : h # i /\ t[a] = s[h]
<1>1. n \in Nat /\ DOMAIN s = 1 .. n /\ \A i \in 1 .. n : s[i] \in R
  OBVIOUS
<1>2. step \in [(1 .. n) \X A -> A] /\ <<>> \in A
  BY <1>1
<1>3. ASSUME NEW k \in 1 .. n, NEW t \in A
      PROVE  step[<<k, t>>] = IF s[k] \in S THEN Append(t, s[k]) ELSE t
  OBVIOUS
<1> DEFINE kept == CHOOSE f : f = [k \in 0 .. n |->
                     IF k = 0 THEN <<>>
                     ELSE IF s[k] \in S THEN Append(f[k - 1], s[k]) ELSE f[k - 1]]
<1>4. Only(s, S) = kept[n]
  BY DEF Only
<1> HIDE DEF n, step
<1>5. PICK f : Computes(f, n, A, <<>>, step)
  BY <1>1, <1>2, Recursion
<1>6. ASSUME NEW k \in 0 .. n
      PROVE  f[k] = IF k = 0 THEN <<>>
                    ELSE IF s[k] \in S THEN Append(f[k - 1], s[k]) ELSE f[k - 1]
  <2>1. f[k] = IF k = 0 THEN <<>> ELSE step[<<k, f[k - 1]>>]
    BY <1>5, Zenon DEF Computes
  <2>2. k # 0 => k \in 1 .. n /\ f[k - 1] \in A
    BY <1>1, <1>5 DEF Computes
  <2> QED BY <1>3, <2>1, <2>2
<1>7. f = [k \in 0 .. n |-> IF k = 0 THEN <<>>
             ELSE IF s[k] \in S THEN Append(f[k - 1], s[k]) ELSE f[k - 1]]
  <2>1. f = [k \in 0 .. n |-> f[k]]
    BY <1>5 DEF Computes
  <2> QED BY <1>6, <2>1
<1>8. kept = [k \in 0 .. n |-> IF k = 0 THEN <<>>
                ELSE IF s[k] \in S THEN Append(kept[k - 1], s[k]) ELSE kept[k - 1]]
  BY <1>7, Zenon
<1> HIDE DEF kept
<1>9. ASSUME NEW k \in 0 .. n
      PROVE  kept[k] = IF k = 0 THEN <<>>
                       ELSE IF s[k] \in S THEN Append(kept[k - 1], s[k]) ELSE kept[k - 1]
  BY <1>8
<1>10. Good(kept[0], 0)
  <2>1. kept[0] = <<>>
    BY <1>1, <1>9
  <2>2. Len(<<>>) = 0 /\ <<>> \in Seq(R)
    OBVIOUS
  <2> QED BY <2>1, <2>2
<1>11. ASSUME NEW k \in 0 .. n, k # n, NEW t, Good(t, k)
       PROVE  Good(IF s[k + 1] \in S THEN Append(t, s[k + 1]) ELSE t, k + 1)
  <2> DEFINE e == s[k + 1]
  <2>1. k + 1 \in 1 .. n /\ e \in R /\ \A i \in 1 .. k + 1 : i \in 1 .. k \/ i = k + 1
    BY <1>1, <1>11
  <2>2. CASE e \notin S
    <3>1. 1 .. k \subseteq 1 .. k + 1
      BY <1>1, <1>11
    <3>2. Len(t) <= k + 1
      BY <1>1, <1>11
    <3>3. \A i \in 1 .. k + 1 : s[i] \in S => \E j \in 1 .. Len(t) : t[j] = s[i]
      BY <1>11, <2>1, <2>2
    <3>4. \A b \in 1 .. Len(t) : \E i \in 1 .. k + 1 :
             /\ t[b] = s[i] /\ s[i] \in S
             /\ \A a \in 1 .. b : a # b => \E h \in 1 .. i : h # i /\ t[a] = s[h]
      BY <1>11, <3>1
    <3> QED BY <1>11, <2>2, <3>2, <3>3, <3>4
  <2>3. CASE e \in S
    <3> DEFINE u == Append(t, e)
    <3>1. /\ u \in Seq(R) /\ Len(u) = Len(t) + 1 /\ Len(t) \in Nat
          /\ u[Len(t) + 1] = e
          /\ \A j \in 1 .. Len(t) : u[j] = t[j]
      BY <1>11, <2>1
    <3> HIDE DEF u
    <3>2. ASSUME NEW i \in 1 .. k + 1, s[i] \in S
          PROVE  \E j \in 1 .. Len(u) : u[j] = s[i]
      <4>1. CASE i = k + 1
        BY <3>1, <4>1
      <4>2. CASE i \in 1 .. k
        BY <1>11, <3>1, <3>2, <4>2
      <4> QED BY <2>1, <4>1, <4>2
    <3>3. ASSUME NEW b \in 1 .. Len(u)
          PROVE  \E i \in 1 .. k + 1 :
                   /\ u[b] = s[i] /\ s[i] \in S
                   /\ \A a \in 1 .. b : a # b => \E h \in 1 .. i : h # i /\ u[a] = s[h]
      <4>1. CASE b = Len(t) + 1
        <5>1. ASSUME NEW a \in 1 .. b, a # b
              PROVE  \E h \in 1 .. k + 1 : h # k + 1 /\ u[a] = s[h]
          <6>1. a \in 1 .. Len(t) /\ u[a] = t[a]
            BY <3>1, <4>1, <5>1
          <6>2. PICK h \in 1 .. k : t[a] = s[h]
            BY <1>11, <6>1
          <6>3. h \in 1 .. k + 1 /\ h # k + 1
            BY <1>1, <1>11
          <6> QED BY <6>1, <6>2, <6>3
        <5>2. k + 1 \in 1 .. k + 1
          BY <1>1, <1>11
        <5>3. u[b] = s[k + 1] /\ s[k + 1] \in S
          BY <2>3, <3>1, <4>1
        <5> QED BY <5>1, <5>2, <5>3
      <4>2. CASE b \in 1 .. Len(t)
        <5>1. PICK i \in 1 .. k :
                /\ t[b] = s[i] /\ s[i] \in S
                /\ \A a \in 1 .. b : a # b => \E h \in 1 .. i : h # i /\ t[a] = s[h]
          BY <1>11, <4>2
        <5>2. \A a \in 1 .. b : u[a] = t[a]
          BY <3>1, <4>2
        <5>3. i \in 1 .. k + 1 /\ b \in 1 .. b
          BY <1>1, <1>11, <3>1, <4>2
        <5>4. \A a \in 1 .. b : a # b => \E h \in 1 .. i : h # i /\ u[a] = s[h]
          BY <5>1, <5>2
        <5>5. u[b] = s[i]
          BY <5>1, <5>2, <5>3
        <5> QED BY <5>1, <5>3, <5>4, <5>5
      <4> QED BY <3>1, <4>1, <4>2
    <3>5. Len(u) <= k + 1
      BY <1>11, <3>1
    <3> HIDE DEF e
    <3>4. Good(u, k + 1)
      BY <3>1, <3>2, <3>3, <3>5
    <3> HIDE DEF Good
    <3> QED BY <2>3, <3>4 DEF u, e
  <2> QED BY <2>2, <2>3
<1> DEFINE T == {k \in 0 .. n : Good(kept[k], k)}
<1> HIDE DEF Good
<1>12. 0 \in T /\ \A k \in 0 .. n : k # n /\ k \in T => k + 1 \in T
  <2>1. ASSUME NEW k \in 0 .. n, k # n, Good(kept[k], k)
        PROVE  k + 1 \in 0 .. n /\ Good(kept[k + 1], k + 1)
    <3>1. k + 1 \in 0 .. n /\ (k + 1) - 1 = k /\ k + 1 # 0
      BY <1>1, <2>1
    <3>2. kept[k + 1] = IF s[k + 1] \in S THEN Append(kept[k], s[k + 1]) ELSE kept[k]
      BY <1>9, <3>1
    <3> QED BY <1>11, <2>1, <3>1, <3>2
  <2> QED BY <1>1, <1>10, <2>1
<1> HIDE DEF T
<1>13. n \in T
  BY <1>1, <1>12, UpTo
<1>14. Good(kept[n], n)
  BY <1>13 DEF T
<1>15. PICK t : t = Only(s, S)
  OBVIOUS
<1>16. /\ t \in Seq(R) /\ Len(t) <= n
       /\ \A i \in 1 .. n : s[i] \in S => \E j \in 1 .. Len(t) : t[j] = s[i]
       /\ \A b \in 1 .. Len(t) : \E i \in 1 .. n :
            /\ t[b] = s[i] /\ s[i] \in S
            /\ \A a \in 1 .. b : a # b => \E h \in 1 .. i : h # i /\ t[a] = s[h]
  BY <1>4, <1>14, <1>15 DEF Good
<1>17. Range(t) = Range(s) \cap S
  <2>1. DOMAIN t = 1 .. Len(t)
    BY <1>16
  <2>2. ASSUME NEW x \in Range(t)  PROVE x \in Range(s) \cap S
    <3>1. PICK b \in 1 .. Len(t) : x = t[b]
      BY <2>1 DEF Range
    <3>2. PICK i \in 1 .. n : t[b] = s[i] /\ s[i] \in S
      BY <1>16
    <3> QED BY <1>1, <3>1, <3>2 DEF Range
  <2>3. ASSUME NEW x \in Range(s) \cap S  PROVE x \in Range(t)
    <3>1. PICK i \in 1 .. n : x = s[i]
      BY <1>1 DEF Range
    <3>2. PICK j \in 1 .. Len(t) : t[j] = s[i]
      BY <1>16, <3>1
    <3> QED BY <2>1, <3>1, <3>2 DEF Range
  <2> QED BY <2>2, <2>3
<1>18. Follows(t, s)
  BY <1>16 DEF n, Follows
<1> QED BY <1>15, <1>16, <1>17, <1>18 DEF n

-----------------------------------------------------------------------------
(* The time line. *)

\* The smaller and the larger of two numbers.
LEMMA OfTwo ==
  ASSUME NEW a \in Int, NEW b \in Int
  PROVE  /\ Min({a, b}) = IF a <= b THEN a ELSE b
         /\ Max({a, b}) = IF a >= b THEN a ELSE b
<1>1. \A x \in {a, b} : x = a \/ x = b
  OBVIOUS
<1>2. Min({a, b}) = IF a <= b THEN a ELSE b
  BY <1>1 DEF Min
<1>3. Max({a, b}) = IF a >= b THEN a ELSE b
  BY <1>1 DEF Max
<1> QED
  BY <1>2, <1>3

\* A template is of positive numbers, but for the total.
Templates == [per : Nat \ {0}, max : Nat \ {0}, total : Nat]

\* Segments have lengths.
LEMMA LengthsAreNumbers ==
  ASSUME NEW t \in Templates, NEW count \in Nat
  PROVE  /\ SegmentLengths(t, count) \in Seq(Nat)
         /\ Len(SegmentLengths(t, count)) = count
<1> DEFINE target == Max({count, t.total})
           length(k) == IF count < t.max THEN Max({1, t.per})
                        ELSE target \div count + (IF k <= target % count THEN 1 ELSE 0)
<1>1. t.per \in Nat /\ t.total \in Nat /\ target \in Nat /\ Max({1, t.per}) \in Nat
  <2>1. t.per \in Nat /\ t.total \in Nat
    BY DEF Templates
  <2>2. /\ target = IF count >= t.total THEN count ELSE t.total
        /\ Max({1, t.per}) = IF 1 >= t.per THEN 1 ELSE t.per
    <3>1. count \in Int /\ t.total \in Int /\ 1 \in Int /\ t.per \in Int
      BY <2>1
    <3> QED
      BY <3>1, OfTwo, Zenon
  <2> QED
    BY <2>1, <2>2
<1> HIDE DEF target
<1>2. ASSUME NEW k \in 1..count
      PROVE  length(k) \in Nat
  <2>2. target \div count \in Nat
    BY <1>1
  <2>3. (IF k <= target % count THEN 1 ELSE 0) \in Nat
    OBVIOUS
  <2> QED
    BY <1>1, <2>2, <2>3
<1>3. SegmentLengths(t, count) = [k \in 1..count |-> length(k)]
  BY Zenon DEF SegmentLengths, target
<1> HIDE DEF length
<1> QED
  BY <1>2, <1>3

\* Segments follow each other from 0.
LEMMA Starts ==
  ASSUME NEW lengths \in Seq(Nat)
  PROVE  /\ StartOf(lengths, 1) = 0
         /\ \A k \in 1..Len(lengths) :
              /\ StartOf(lengths, k) \in Nat
              /\ StartOf(lengths, k + 1) = StartOf(lengths, k) + lengths[k]
<1> DEFINE n == Len(lengths)
           step == [x \in (1..n) \X Nat |-> x[2] + lengths[x[1]]]
           ended == CHOOSE f : f = [i \in 0..n |-> IF i = 0 THEN 0
                                                   ELSE f[i - 1] + lengths[i]]
<1>1. n \in Nat /\ \A i \in 1..n : lengths[i] \in Nat
  OBVIOUS
<1>2. step \in [(1..n) \X Nat -> Nat]
  BY <1>1
<1>3. ASSUME NEW i \in 1..n, NEW sum \in Nat
      PROVE  step[<<i, sum>>] = sum + lengths[i]
  OBVIOUS
<1>4. \A k : StartOf(lengths, k) = ended[k - 1]
  BY Zenon DEF StartOf, SumOf
<1> HIDE DEF n, step
<1>5. PICK f : Computes(f, n, Nat, 0, step)
  BY <1>1, <1>2, Recursion
<1>6. ASSUME NEW i \in 0..n
      PROVE  f[i] = IF i = 0 THEN 0 ELSE f[i - 1] + lengths[i]
  <2>1. f[i] = IF i = 0 THEN 0 ELSE step[<<i, f[i - 1]>>]
    BY <1>5, Zenon DEF Computes
  <2>2. f \in [0..n -> Nat]
    BY <1>5, Zenon DEF Computes
  <2>3. i # 0 => i \in 1..n /\ f[i - 1] \in Nat
    BY <1>1, <2>2
  <2> QED
    BY <1>3, <2>1, <2>3
<1>7. f = [i \in 0..n |-> IF i = 0 THEN 0 ELSE f[i - 1] + lengths[i]]
  <2>1. f = [i \in 0..n |-> f[i]]
    BY <1>5 DEF Computes
  <2> QED
    BY <1>6, <2>1
<1>8. ended = [i \in 0..n |-> IF i = 0 THEN 0 ELSE ended[i - 1] + lengths[i]]
  BY <1>7, Zenon
<1> HIDE DEF ended
<1>9. ASSUME NEW i \in 0..n
      PROVE  ended[i] = IF i = 0 THEN 0 ELSE ended[i - 1] + lengths[i]
  BY <1>8
<1> DEFINE T == {i \in 0..n : ended[i] \in Nat}
<1>10. 0 \in T
  BY <1>1, <1>9
<1>11. ASSUME NEW i \in 0..n, i # n, i \in T
       PROVE  i + 1 \in T
  <2>1. i + 1 \in 0..n /\ i + 1 \in 1..n /\ i + 1 # 0 /\ (i + 1) - 1 = i
    BY <1>1, <1>11
  <2>2. ended[i + 1] = ended[i] + lengths[i + 1]
    BY <1>9, <2>1
  <2> QED
    BY <1>1, <1>11, <2>1, <2>2
<1> HIDE DEF T
<1>12. \A i \in 0..n : i \in T
  BY <1>1, <1>10, <1>11, UpTo
<1>13. \A i \in 0..n : ended[i] \in Nat
  BY <1>12 DEF T
<1>14. StartOf(lengths, 1) = 0
  BY <1>1, <1>4, <1>9
<1>15. ASSUME NEW k \in 1..n
       PROVE  /\ StartOf(lengths, k) \in Nat
              /\ StartOf(lengths, k + 1) = StartOf(lengths, k) + lengths[k]
  <2>1. k - 1 \in 0..n /\ k \in 0..n /\ k # 0 /\ (k + 1) - 1 = k
    BY <1>1
  <2>2. ended[k] = ended[k - 1] + lengths[k]
    BY <1>9, <2>1
  <2>3. StartOf(lengths, k) = ended[k - 1] /\ StartOf(lengths, k + 1) = ended[(k + 1) - 1]
    BY <1>4
  <2> QED
    BY <1>13, <2>1, <2>2, <2>3
<1> QED
  BY <1>14, <1>15 DEF n

\* A segment has ended when a later one starts.
LEMMA StartsInOrder ==
  ASSUME NEW lengths \in Seq(Nat), NEW k \in 1..Len(lengths), NEW m \in 1..Len(lengths),
         k < m
  PROVE  StartOf(lengths, k) + lengths[k] <= StartOf(lengths, m)
<1> DEFINE n == Len(lengths)
           T == {j \in 0..n : k < j => StartOf(lengths, k) + lengths[k] <= StartOf(lengths, j)}
<1>1. n \in Nat /\ \A i \in 1..n : lengths[i] \in Nat
  OBVIOUS
<1>2. \A j \in 1..n : /\ StartOf(lengths, j) \in Nat
                      /\ StartOf(lengths, j + 1) = StartOf(lengths, j) + lengths[j]
  BY Starts
<1>3. 0 \in T
  BY <1>1
<1>4. ASSUME NEW j \in 0..n, j # n, j \in T
      PROVE  j + 1 \in T
  <2> SUFFICES ASSUME k < j + 1
               PROVE  StartOf(lengths, k) + lengths[k] <= StartOf(lengths, j + 1)
    BY <1>1, <1>4
  <2>1. j \in 1..n
    BY <1>1
  <2>2. CASE j = k
    BY <1>1, <1>2, <2>1, <2>2
  <2>3. CASE k < j
    <3>1. StartOf(lengths, k) + lengths[k] <= StartOf(lengths, j)
      BY <1>4, <2>3
    <3>2. /\ StartOf(lengths, j) \in Nat /\ lengths[j] \in Nat
          /\ StartOf(lengths, j + 1) = StartOf(lengths, j) + lengths[j]
      BY <1>1, <1>2, <2>1
    <3>3. StartOf(lengths, k) \in Nat /\ lengths[k] \in Nat
      BY <1>1, <1>2
    <3> QED
      BY <3>1, <3>2, <3>3, SMTT(30)
  <2>4. j = k \/ k < j
    <3> HIDE DEF T, n
    <3> QED
      BY <1>1, <2>1, SMTT(30)
  <2> QED
    BY <2>2, <2>3, <2>4, Zenon
<1> HIDE DEF T
<1>5. \A j \in 0..n : j \in T
  BY <1>1, <1>3, <1>4, UpTo
<1>6. m \in 0..n
  BY <1>1
<1> QED
  BY <1>5, <1>6 DEF T

\* Segments of one length start at its multiples.
LEMMA EvenStarts ==
  ASSUME NEW lengths \in Seq(Nat), NEW per \in Nat,
         \A i \in 1..Len(lengths) : lengths[i] = per,
         NEW k \in 1..Len(lengths)
  PROVE  StartOf(lengths, k) = (k - 1) * per
<1> DEFINE n == Len(lengths)
           T == {j \in 0..n : j # 0 => StartOf(lengths, j) = (j - 1) * per}
<1>1. n \in Nat
  OBVIOUS
<1>2. StartOf(lengths, 1) = 0
      /\ \A j \in 1..n : StartOf(lengths, j + 1) = StartOf(lengths, j) + per
  BY Starts
<1>3. 0 \in T
  BY <1>1
<1>4. ASSUME NEW j \in 0..n, j # n, j \in T
      PROVE  j + 1 \in T
  <2>1. j + 1 \in 0..n
    BY <1>1, <1>4
  <2>2. CASE j = 0
    <3>1. (1 - 1) * per = 0
      OBVIOUS
    <3>2. StartOf(lengths, j + 1) = ((j + 1) - 1) * per
      BY <1>2, <2>2, <3>1
    <3> QED
      BY <2>1, <3>2
  <2>3. CASE j # 0
    <3>1. j \in 1..n /\ StartOf(lengths, j) = (j - 1) * per
      BY <1>1, <1>4, <2>3
    <3>2. StartOf(lengths, j + 1) = (j - 1) * per + per
      BY <1>2, <3>1
    <3>3. (j - 1) * per + per = ((j + 1) - 1) * per
      BY <3>1
    <3> QED
      BY <2>1, <3>2, <3>3
  <2> QED
    BY <2>2, <2>3
<1> HIDE DEF T
<1>5. \A j \in 0..n : j \in T
  BY <1>1, <1>3, <1>4, UpTo
<1>6. k \in 0..n /\ k # 0
  BY <1>1
<1> QED
  BY <1>5, <1>6 DEF T

-----------------------------------------------------------------------------
(* Cues in their segments. *)

Cues == [text : Seq(STRING), index : Int, in : Int, out : Int]

\* The fields of cues.
LEMMA CueFields ==
  ASSUME NEW cues \in Seq(Cues)
  PROVE  /\ Len(cues) \in Nat /\ DOMAIN cues = 1..Len(cues)
         /\ \A i \in 1..Len(cues) :
              /\ cues[i] \in Cues
              /\ cues[i].text \in Seq(STRING)
              /\ cues[i].index \in Int /\ cues[i].in \in Int /\ cues[i].out \in Int
<1>1. \A c \in Cues : /\ c.text \in Seq(STRING)
                     /\ c.index \in Int /\ c.in \in Int /\ c.out \in Int
  BY DEF Cues
<1> QED
  BY <1>1, ElementOfSeq

\* Cues in order are in order two by two.
LEMMA CuesApart ==
  ASSUME NEW cues \in Seq(Cues), InOrder(cues), \A i \in DOMAIN cues : cues[i].out > cues[i].in,
         NEW i \in 1..Len(cues), NEW j \in 1..Len(cues), i < j
  PROVE  cues[i].out <= cues[j].in
<1> DEFINE n == Len(cues)
           T == {m \in 0..n : i < m => cues[i].out <= cues[m].in}
<1>1. n \in Nat /\ \A m \in 1..n : cues[m].in \in Int /\ cues[m].out \in Int
                                   /\ cues[m].out > cues[m].in
  BY CueFields
<1>2. \A m \in 2..n : cues[m].in >= cues[m - 1].out
  BY DEF InOrder
<1>3. 0 \in T
  BY <1>1
<1>4. ASSUME NEW m \in 0..n, m # n, m \in T
      PROVE  m + 1 \in T
  <2> SUFFICES ASSUME i < m + 1
               PROVE  cues[i].out <= cues[m + 1].in
    BY <1>1, <1>4
  <2>1. m \in 1..n /\ m + 1 \in 1..n /\ m + 1 \in 2..n /\ (m + 1) - 1 = m
    BY <1>1, <1>4
  <2>2. cues[m + 1].in >= cues[m].out
    BY <1>2, <2>1
  <2>3. CASE m = i
    BY <1>1, <2>1, <2>2, <2>3
  <2>4. CASE i < m
    <3>1. cues[i].out <= cues[m].in
      BY <1>4, <2>4
    <3>2. /\ cues[i].out \in Int /\ cues[m].in \in Int /\ cues[m].out \in Int
          /\ cues[m + 1].in \in Int /\ cues[m].out > cues[m].in
      BY <1>1, <2>1
    <3> QED
      BY <2>2, <3>1, <3>2
  <2> QED
    BY <1>1, <2>1, <2>3, <2>4
<1> HIDE DEF T
<1>5. \A m \in 0..n : m \in T
  BY <1>1, <1>3, <1>4, UpTo
<1>6. j \in 0..n
  BY <1>1
<1> QED
  BY <1>5, <1>6 DEF T

\* A segment draws within its length, one cue at a time.
LEMMA SegmentApart ==
  ASSUME NEW override, override = None \/ override \in Seq(Cues), ValidCues(override),
         NEW caption, NEW length \in Nat
  PROVE  /\ \A c \in SegmentCues(override, caption, length) :
              c.in \in Nat /\ c.out \in Int /\ c.in < c.out /\ c.out <= length
         /\ \A c, d \in SegmentCues(override, caption, length) :
              c = d \/ c.out <= d.in \/ d.out <= c.in
<1>1. CASE override = None
  <2>1. SegmentCues(override, caption, length)
          \subseteq {[text |-> caption, in |-> 0, out |-> length]}
    BY <1>1 DEF SegmentCues
  <2>2. \A c \in SegmentCues(override, caption, length) : c.in < c.out
    BY DEF SegmentCues
  <2> QED
    BY <2>1, <2>2
<1>2. CASE override # None
  <2> DEFINE cut(c) == [text |-> c.text, in |-> c.in, out |-> Min({c.out, length})]
             drawn == SegmentCues(override, caption, length)
  <2>1. override \in Seq(Cues) /\ InOrder(override)
        /\ \A i \in DOMAIN override : override[i].in >= 0 /\ override[i].out > override[i].in
    BY <1>2 DEF ValidCues
  <2>2. ASSUME NEW c \in drawn
        PROVE  /\ c.in < c.out
               /\ \E i \in 1..Len(override) : c = cut(override[i])
    <3>1. /\ c \in {cut(e) : e \in Range(override)}
          /\ c.in < c.out
      BY <1>2 DEF SegmentCues
    <3> HIDE DEF cut
    <3>2. PICK e \in Range(override) : c = cut(e)
      BY <3>1
    <3>3. DOMAIN override = 1..Len(override)
      BY <2>1
    <3> QED
      BY <3>1, <3>2, <3>3 DEF Range
  <2>3. ASSUME NEW i \in 1..Len(override)
        PROVE  /\ override[i].in \in Nat /\ override[i].out \in Int
               /\ cut(override[i]).in = override[i].in
               /\ cut(override[i]).out \in Int
               /\ cut(override[i]).out <= length
               /\ cut(override[i]).out <= override[i].out
    <3>1. override[i].in \in Int /\ override[i].out \in Int /\ override[i].in >= 0
      BY <2>1, CueFields
    <3>2. length \in Int
      OBVIOUS
    <3>3. Min({override[i].out, length})
            = IF override[i].out <= length THEN override[i].out ELSE length
      BY <3>1, <3>2, OfTwo, Zenon
    <3>4. cut(override[i]).in = override[i].in
          /\ cut(override[i]).out = Min({override[i].out, length})
      OBVIOUS
    <3> HIDE DEF cut
    <3> QED
      BY <3>1, <3>3, <3>4
  <2> HIDE DEF cut, drawn
  <2>4. ASSUME NEW c \in drawn, NEW d \in drawn
        PROVE  c = d \/ c.out <= d.in \/ d.out <= c.in
    <3>1. PICK i \in 1..Len(override) : c = cut(override[i])
      BY <2>2
    <3>2. PICK j \in 1..Len(override) : d = cut(override[j])
      BY <2>2
    <3>3. ASSUME i < j
          PROVE  c.out <= d.in
      <4>1. override[i].out <= override[j].in
        BY <2>1, <3>3, CuesApart
      <4> QED
        BY <2>3, <3>1, <3>2, <4>1
    <3>4. ASSUME j < i
          PROVE  d.out <= c.in
      <4>1. override[j].out <= override[i].in
        BY <2>1, <3>4, CuesApart
      <4> QED
        BY <2>3, <3>1, <3>2, <4>1
    <3>5. i = j => c = d
      BY <3>1, <3>2
    <3>6. i < j \/ j < i \/ i = j
      BY <2>1
    <3> QED
      BY <3>3, <3>4, <3>5, <3>6
  <2>5. ASSUME NEW c \in drawn
        PROVE  c.in \in Nat /\ c.out \in Int /\ c.in < c.out /\ c.out <= length
    BY <2>2, <2>3
  <2> QED
    BY <2>4, <2>5 DEF drawn
<1> QED
  BY <1>1, <1>2

\* So does the video: its segments follow each other.
LEMMA DrawnApart ==
  ASSUME NEW override, override = None \/ override \in Seq(Cues), ValidCues(override),
         NEW captions, Len(captions) \in Nat, DOMAIN captions = 1..Len(captions),
         NEW t \in Templates, NEW intro \in Nat
  PROVE  \A c, d \in DrawnCues(override, captions, t, intro) :
           c = d \/ c.out <= d.in \/ d.out <= c.in
<1> DEFINE n == Len(captions)
           lengths == SegmentLengths(t, n)
           start(k) == intro + StartOf(lengths, k)
           inside(k) == SegmentCues(override, captions[k], lengths[k])
           at(k, c) == [text |-> c.text, in |-> start(k) + c.in, out |-> start(k) + c.out]
           drawn == DrawnCues(override, captions, t, intro)
<1>1. n \in Nat /\ lengths \in Seq(Nat) /\ Len(lengths) = n
  BY LengthsAreNumbers
<1>2. drawn = UNION {{at(k, c) : c \in inside(k)} : k \in DOMAIN captions}
  BY Zenon DEF DrawnCues
<1>3. \A c \in drawn : \E k \in 1..n : \E e \in inside(k) : c = at(k, e)
  <2> HIDE DEF at, inside, drawn
  <2> QED
    BY <1>2
<1> HIDE DEF drawn, lengths
<1>4. ASSUME NEW k \in 1..n
      PROVE  /\ start(k) \in Nat /\ lengths[k] \in Nat
             /\ \A e \in inside(k) :
                  e.in \in Nat /\ e.out \in Int /\ e.in < e.out /\ e.out <= lengths[k]
             /\ \A e, f \in inside(k) : e = f \/ e.out <= f.in \/ f.out <= e.in
  <2>1. lengths[k] \in Nat /\ StartOf(lengths, k) \in Nat
    BY <1>1, Starts
  <2>2. start(k) \in Nat
    BY <2>1
  <2> QED
    BY <2>1, <2>2, SegmentApart
<1>5. ASSUME NEW k \in 1..n, NEW m \in 1..n, k < m
      PROVE  start(k) + lengths[k] <= start(m)
  <2>1. StartOf(lengths, k) + lengths[k] <= StartOf(lengths, m)
    BY <1>1, <1>5, StartsInOrder
  <2>2. StartOf(lengths, k) \in Nat /\ lengths[k] \in Nat /\ StartOf(lengths, m) \in Nat
    BY <1>1, Starts
  <2> QED
    BY <2>1, <2>2
<1>6. \A k \in 1..n : \A e \in inside(k) :
        at(k, e).in = start(k) + e.in /\ at(k, e).out = start(k) + e.out
  OBVIOUS
<1> HIDE DEF inside, at, start
<1>7. ASSUME NEW k \in 1..n, NEW m \in 1..n, k < m, NEW e \in inside(k), NEW f \in inside(m)
      PROVE  at(k, e).out <= at(m, f).in
  <2>1. e.out \in Int /\ e.out <= lengths[k] /\ f.in \in Nat
    BY <1>4
  <2>2. start(k) \in Nat /\ lengths[k] \in Nat /\ start(m) \in Nat
    BY <1>4
  <2>3. start(k) + lengths[k] <= start(m)
    BY <1>5, <1>7
  <2>4. start(k) + e.out <= start(m) + f.in
    BY <2>1, <2>2, <2>3
  <2> QED
    BY <1>6, <2>4
<1>8. ASSUME NEW c \in drawn, NEW d \in drawn
      PROVE  c = d \/ c.out <= d.in \/ d.out <= c.in
  <2>k. PICK k \in 1..n : \E e \in inside(k) : c = at(k, e)
    BY <1>3
  <2>m. PICK m \in 1..n : \E f \in inside(m) : d = at(m, f)
    BY <1>3
  <2>1. PICK e \in inside(k) : c = at(k, e)
    BY <2>k
  <2>2. PICK f \in inside(m) : d = at(m, f)
    BY <2>m
  <2>3. CASE k < m
    BY <1>7, <2>1, <2>2, <2>3
  <2>4. CASE m < k
    BY <1>7, <2>1, <2>2, <2>4
  <2>5. CASE k = m
    <3>1. e = f \/ e.out <= f.in \/ f.out <= e.in
      BY <1>4, <2>1, <2>2, <2>5
    <3>2. e = f => c = d
      BY <2>1, <2>2, <2>5
    <3>3. /\ e.in \in Nat /\ e.out \in Int /\ f.in \in Nat /\ f.out \in Int
          /\ start(k) \in Nat
      BY <1>4, <2>1, <2>2, <2>5
    <3>4. /\ c.in = start(k) + e.in /\ c.out = start(k) + e.out
          /\ d.in = start(k) + f.in /\ d.out = start(k) + f.out
      BY <1>6, <2>1, <2>2, <2>5
    <3> QED
      BY <3>1, <3>2, <3>3, <3>4, SMTT(30)
  <2>6. k < m \/ m < k \/ k = m
    BY <1>1
  <2> QED
    BY <2>3, <2>4, <2>5, <2>6
<1> QED
  BY <1>8 DEF drawn

-----------------------------------------------------------------------------
(* The order of the photos. *)

\* A function on the first numbers is a list.
LEMMA FunctionIsList ==
  ASSUME NEW n \in Nat, NEW D, NEW f, DOMAIN f = 1..n, f = [k \in 1..n |-> f[k]],
         \A k \in 1..n : f[k] \in D
  PROVE  f \in Seq(D) /\ Len(f) = n
  OBVIOUS

\* What is picked are files.
LEMMA PickedKeeps ==
  ASSUME NEW D, NEW files \in Seq(D), NEW X, NEW positions \in Seq(X)
  PROVE  Picked(files, positions) \in Seq(D)
<1> DEFINE kept == Only(positions, 0..(Len(files) - 1))
           picked == [n \in DOMAIN kept |-> files[kept[n] + 1]]
<1>1. kept \in Seq(X) /\ Range(kept) = Range(positions) \cap 0..(Len(files) - 1)
  BY OnlyKeeps
<1>2. Picked(files, positions) = IF kept = <<>> THEN files ELSE picked
  BY Zenon DEF Picked
<1> HIDE DEF kept
<1>3. DOMAIN kept = 1..Len(kept) /\ Len(kept) \in Nat
  BY <1>1
<1>4. ASSUME NEW n \in 1..Len(kept)
      PROVE  files[kept[n] + 1] \in D
  <2>1. kept[n] \in 0..(Len(files) - 1)
    BY <1>1, <1>3 DEF Range
  <2> QED
    BY <2>1
<1>5. picked \in Seq(D)
  BY <1>3, <1>4
<1> QED
  BY <1>2, <1>5

\* Entries in another order are as many.
LEMMA ByPositionDomain ==
  ASSUME NEW entries
  PROVE  DOMAIN ByPosition(entries) = DOMAIN entries
  BY Zenon DEF ByPosition

\* Positions of entries are a list.
LEMMA FieldsAreList ==
  ASSUME NEW n \in Nat, NEW f, DOMAIN f = 1..n, f = [k \in 1..n |-> f[k]]
  PROVE  \E X : f \in Seq(X)
<1> DEFINE X == {f[k] : k \in 1..n}
<1>1. \A k \in 1..n : f[k] \in X
  OBVIOUS
<1> HIDE DEF X
<1>2. f \in Seq(X)
  BY <1>1, FunctionIsList
<1> QED
  BY <1>2

\* The overrides are lists, or none.
LEMMA OverridesAreLists ==
  ASSUME NEW order \in Orders, NEW slides \in SlideLists
  PROVE  /\ \E X : Optional(order, <<>>) \in Seq(X)
         /\ \E X : Optional(slides, <<>>) \in Seq(X)
<1>1. \A X : <<>> \in Seq(X)
  OBVIOUS
<1>2. \E X : Optional(order, <<>>) \in Seq(X)
  <2> DEFINE Entries == [position : Int, selected : BOOLEAN]
  <2>1. order = None \/ order \in PhotosInputs
    BY DEF Orders, NormalPhotos
  <2>2. PhotosInputs \subseteq {None} \cup Seq(Entries)
    BY ContentAssumption DEF ContentAssumption
  <2> HIDE DEF Entries
  <2>3. order = None \/ order \in Seq(Entries)
    BY <2>1, <2>2
  <2> QED
    BY <1>1, <2>3 DEF Optional
<1>3. \E X : Optional(slides, <<>>) \in Seq(X)
  <2>1. slides = None \/ slides \in SlideInputs
    BY DEF SlideLists, NormalSlides
  <2>2. \A s \in SlideInputs : s = None \/ s \in Seq(Range(s))
    BY ContentAssumption DEF ContentAssumption
  <2>3. slides = None \/ slides \in Seq(Range(slides))
    BY <2>1, <2>2
  <2> QED
    BY <1>1, <2>3 DEF Optional
<1> QED
  BY <1>2, <1>3

\* What the orders leave are files.
LEMMA AppliedKeeps ==
  ASSUME NEW D, NEW files \in Seq(D), NEW order \in Orders, NEW slides \in SlideLists
  PROVE  /\ PhotosApplied(files, order) \in Seq(D)
         /\ SlidesApplied(files, slides) \in Seq(D)
<1>1. PhotosApplied(files, order) \in Seq(D)
  <2> DEFINE given == Optional(order, <<>>)
             entries == Only(given, {e \in Range(given) : e.selected})
             positions == [n \in DOMAIN entries |-> entries[n].position]
  <2>1. PICK X : given \in Seq(X)
    BY OverridesAreLists
  <2> HIDE DEF given
  <2>2. entries \in Seq(X)
    BY <2>1, OnlyKeeps
  <2>3. PhotosApplied(files, order) = Picked(files, positions)
    BY Zenon DEF PhotosApplied, given
  <2> HIDE DEF entries
  <2>4. Len(entries) \in Nat /\ DOMAIN entries = 1..Len(entries)
    BY <2>2
  <2>5. PICK Y : positions \in Seq(Y)
    BY <2>4, FieldsAreList
  <2> HIDE DEF positions
  <2> QED
    BY <2>3, <2>5, PickedKeeps
<1>2. SlidesApplied(files, slides) \in Seq(D)
  <2> DEFINE given == Optional(slides, <<>>)
             entries == Only(given, {s \in Range(given) : s.kind = "photo"})
             photos == ByPosition(entries)
             positions == [n \in DOMAIN photos |-> photos[n].photo]
  <2>1. PICK X : given \in Seq(X)
    BY OverridesAreLists
  <2> HIDE DEF given
  <2>2. entries \in Seq(X)
    BY <2>1, OnlyKeeps
  <2>3. SlidesApplied(files, slides) = Picked(files, positions)
    BY Zenon DEF SlidesApplied, given
  <2> HIDE DEF entries
  <2>4. Len(entries) \in Nat /\ DOMAIN photos = 1..Len(entries)
    BY <2>2, ByPositionDomain
  <2> HIDE DEF photos
  <2>5. PICK Y : positions \in Seq(Y)
    BY <2>4, FieldsAreList
  <2> HIDE DEF positions
  <2> QED
    BY <2>3, <2>5, PickedKeeps
<1> QED
  BY <1>1, <1>2

\* The photos of a listing, in any order.
LEMMA OrderedPhotos ==
  ASSUME NEW i \in DOMAIN Listings, NEW order \in Orders, NEW slides \in SlideLists
  PROVE  Ordered(Listings[i], order, slides) \in Seq(DOMAIN Listings[i].captions)
<1> DEFINE l == Listings[i]
           D == DOMAIN l.captions
<1>1. /\ l.captions \in Seq(Seq(STRING)) \ {<<>>}
      /\ l.featured \in {None} \cup D
  BY ContentAssumption DEF ContentAssumption
<1>2. D = 1..Len(l.captions) /\ Len(l.captions) \in Nat \ {0}
  <2> DEFINE S == Seq(STRING)
  <2>1. l.captions \in Seq(S) /\ l.captions # <<>>
    BY <1>1
  <2> HIDE DEF S, l
  <2> QED
    BY <2>1, EmptySeq, LenProperties DEF D
<1>3. Prepared(l) \in Seq(D)
  <2>1. CASE ~DeliveryPlan(l).status
    <3>1. Prepared(l) = [p \in D |-> p]
      BY <2>1 DEF Prepared
    <3> HIDE DEF D, l
    <3> QED
      BY <1>2, <3>1
  <2>2. CASE DeliveryPlan(l).status
    <3> DEFINE main == IF l.featured = None THEN 1 ELSE l.featured
    <3>1. Prepared(l) = <<main>>
      BY <2>2 DEF Prepared
    <3>2. main \in D
      BY <1>1, <1>2
    <3> HIDE DEF main, D, l
    <3> QED
      BY <3>1, <3>2, OneWord
  <2> QED
    BY <2>1, <2>2
<1>4. PhotosApplied(Prepared(l), order) \in Seq(D)
  BY <1>3, AppliedKeeps
<1>5. SlidesApplied(PhotosApplied(Prepared(l), order), slides) \in Seq(D)
  BY <1>4, AppliedKeeps
<1> QED
  BY <1>5 DEF Ordered

\* Captions are texts.
LEMMA CaptionsAreTexts ==
  ASSUME NEW i \in DOMAIN Listings, NEW photos \in Seq(DOMAIN Listings[i].captions)
  PROVE  /\ CaptionsOf(Listings[i], photos) \in Seq(Seq(Words))
         /\ Len(CaptionsOf(Listings[i], photos)) = Len(photos)
         /\ DOMAIN CaptionsOf(Listings[i], photos) = 1..Len(photos)
<1> DEFINE l == Listings[i]
<1>1. WordsOfListing(l)
  BY ListingHasWords
<1>2. Field("similar_required", l, PublicUrl(l)) \in Seq(Words)
  <2> DEFINE url == PublicUrl(l)
             label == <<"Similar", "required?">>
  <2>1. url \in Seq(Words) /\ url # <<>>
    BY <1>1, UrlHasWords
  <2>2. label \in Seq(Words)
    BY TwoWords DEF Words
  <2>3. Field("similar_required", l, url) = Labelled(label, SiteOf(url))
    BY DEF Field
  <2> HIDE DEF url, label
  <2>4. SiteOf(url) \in Seq(Words)
    <3>1. url[1] \in Words
      BY <2>1, EmptySeq, ElementOfSeq
    <3> QED
      BY <3>1, OneWord DEF SiteOf
  <2>5. Field("similar_required", l, url) \in Seq(Words)
    BY <2>2, <2>3, <2>4, LabelledWords
  <2> QED
    BY <2>5 DEF url
<1>3. ASSUME NEW p \in DOMAIN l.captions
      PROVE  SlideCaption(l, p) \in Seq(Words)
  <2> DEFINE S == Seq(STRING)
  <2>1. l.captions \in Seq(S) /\ DOMAIN l.captions = 1..Len(l.captions)
    <3>1. l.captions \in Seq(S)
      BY ContentAssumption DEF ContentAssumption
    <3> HIDE DEF S
    <3> QED
      BY <3>1
  <2> HIDE DEF S
  <2>2. l.captions[p] \in S
    BY <2>1, ElementOfSeq
  <2>3. l.captions[p] \in Seq(Words)
    BY <2>2, TextsAreWords DEF S
  <2> QED
    BY <1>2, <2>3 DEF SlideCaption
<1> DEFINE captions == CaptionsOf(l, photos)
           W == Seq(Words)
<1>4. DOMAIN photos = 1..Len(photos) /\ Len(photos) \in Nat
      /\ \A k \in 1..Len(photos) : photos[k] \in DOMAIN l.captions
  BY ElementOfSeq
<1>5. captions = [k \in 1..Len(photos) |-> SlideCaption(l, photos[k])]
  BY <1>4 DEF CaptionsOf
<1>6. \A k \in 1..Len(photos) : SlideCaption(l, photos[k]) \in W
  BY <1>3, <1>4
<1> HIDE DEF W, l, captions
<1>7. captions \in Seq(W) /\ Len(captions) = Len(photos) /\ DOMAIN captions = 1..Len(photos)
  BY <1>4, <1>5, <1>6
<1> QED
  BY <1>7 DEF captions, W, l

-----------------------------------------------------------------------------
(* The snapshot. *)

\* The slides with a caption, in their order.
Captioned(captions) ==
  Only([k \in DOMAIN captions |-> k], {k \in DOMAIN captions : captions[k] # <<>>})
CueOf(captions, per, index, k) ==
  [index |-> index, text |-> captions[k], in |-> (k - 1) * per, out |-> k * per]

\* They come each once, in rising order.
LEMMA CaptionedRises ==
  ASSUME NEW captions, NEW n \in Nat, DOMAIN captions = 1..n
  PROVE  /\ Len(Captioned(captions)) \in Nat
         /\ DOMAIN Captioned(captions) = 1..Len(Captioned(captions))
         /\ \A i \in 1..Len(Captioned(captions)) :
              Captioned(captions)[i] \in 1..n /\ captions[Captioned(captions)[i]] # <<>>
         /\ \A k \in 1..n : captions[k] # <<>> =>
              \E i \in 1..Len(Captioned(captions)) : Captioned(captions)[i] = k
         /\ \A a, b \in 1..Len(Captioned(captions)) :
              a < b => Captioned(captions)[a] < Captioned(captions)[b]
<1> DEFINE s == [k \in DOMAIN captions |-> k]
           S == {k \in DOMAIN captions : captions[k] # <<>>}
           kept == Only(s, S)
<1>1. s \in Seq(1..n) /\ Len(s) = n /\ \A k \in 1..n : s[k] = k
  OBVIOUS
<1>2. Range(s) \cap S = S
  BY <1>1 DEF Range
<1> HIDE DEF s
<1>3. /\ kept \in Seq(1..n)
      /\ Range(kept) = S
      /\ Follows(kept, s)
  <2> HIDE DEF S
  <2>1. s \in Seq(1..n)
    BY <1>1
  <2>2. /\ Only(s, S) \in Seq(1..n)
        /\ Range(Only(s, S)) = Range(s) \cap S
        /\ Follows(Only(s, S), s)
    BY <2>1, OnlyKeeps, Zenon
  <2> QED
    BY <1>2, <2>2, Zenon
<1>4. Captioned(captions) = kept
  BY DEF Captioned, s
<1> HIDE DEF kept
<1>5. Len(kept) \in Nat /\ DOMAIN kept = 1..Len(kept)
  BY <1>3
<1>6. ASSUME NEW i \in 1..Len(kept)
      PROVE  kept[i] \in 1..n /\ captions[kept[i]] # <<>>
  BY <1>3, <1>5 DEF Range
<1>7. ASSUME NEW k \in 1..n, captions[k] # <<>>
      PROVE  \E i \in 1..Len(kept) : kept[i] = k
  BY <1>3, <1>5, <1>7 DEF Range
<1>8. ASSUME NEW a \in 1..Len(kept), NEW b \in 1..Len(kept), a < b
      PROVE  kept[a] < kept[b]
  <2>1. PICK i \in 1..n :
           /\ kept[b] = s[i]
           /\ \A c \in 1..b : c # b => \E h \in 1..i : h # i /\ kept[c] = s[h]
    BY <1>1, <1>3 DEF Follows
  <2>2. a \in 1..b /\ a # b
    BY <1>5, <1>8
  <2>3. PICK h \in 1..i : h # i /\ kept[a] = s[h]
    BY <2>1, <2>2
  <2>4. h \in 1..n /\ h < i
    BY <2>3
  <2> QED
    BY <1>1, <2>1, <2>3, <2>4
<1> QED
  BY <1>4, <1>5, <1>6, <1>7, <1>8

\* Each has a cue.
LEMMA AutoCuesAre ==
  ASSUME NEW captions, NEW n \in Nat, DOMAIN captions = 1..n, NEW per \in Nat \ {0}
  PROVE  /\ DOMAIN AutoCues(captions, per) = 1..Len(Captioned(captions))
         /\ Len(AutoCues(captions, per)) = Len(Captioned(captions))
         /\ \A i \in 1..Len(Captioned(captions)) :
              AutoCues(captions, per)[i] = CueOf(captions, per, i - 1, Captioned(captions)[i])
<1> DEFINE captioned == Captioned(captions)
           cues == AutoCues(captions, per)
<1>1. cues = IF per <= 0 THEN <<>>
             ELSE [i \in DOMAIN captioned |->
                     [index |-> i - 1, text |-> captions[captioned[i]],
                      in |-> (captioned[i] - 1) * per, out |-> captioned[i] * per]]
  BY Zenon DEF AutoCues, Captioned
<1>2. ~(per <= 0)
  OBVIOUS
<1>3. Len(captioned) \in Nat /\ DOMAIN captioned = 1..Len(captioned)
  BY CaptionedRises
<1> HIDE DEF captioned, cues
<1>4. cues = [i \in 1..Len(captioned) |-> CueOf(captions, per, i - 1, captioned[i])]
  BY <1>1, <1>2, <1>3 DEF CueOf
<1>5. DOMAIN cues = 1..Len(captioned) /\ Len(cues) = Len(captioned)
  BY <1>3, <1>4
<1>6. \A i \in 1..Len(captioned) : cues[i] = CueOf(captions, per, i - 1, captioned[i])
  BY <1>4
<1> QED
  BY <1>5, <1>6 DEF captioned, cues

\* The ends of a slide.
LEMMA Multiples ==
  ASSUME NEW per \in Nat \ {0}, NEW a \in Nat \ {0}
  PROVE  /\ (a - 1) * per \in Nat /\ a * per \in Nat
         /\ a * per > (a - 1) * per
         /\ \A b \in Nat : b <= a - 1 => b * per <= (a - 1) * per
<1>1. a - 1 \in Nat /\ \A c, d \in Nat : c * d \in Nat
  OBVIOUS
<1>2. a * per = (a - 1) * per + per
  OBVIOUS
<1>3. ASSUME NEW b \in Nat, b <= a - 1
      PROVE  b * per <= (a - 1) * per
  <2>1. (a - 1) * per = b * per + ((a - 1) - b) * per
    BY <1>3
  <2>2. b * per \in Nat /\ ((a - 1) - b) * per \in Nat
    BY <1>1, <1>3
  <2> QED
    BY <2>1, <2>2
<1>4. (a - 1) * per \in Nat /\ a * per \in Nat
  BY <1>1
<1> QED
  BY <1>2, <1>3, <1>4

\* They are a snapshot the editor can send back, unless a caption is too long.
LEMMA AutoCuesValid ==
  ASSUME NEW n \in Nat, NEW captions \in Seq(Seq(Words)), NEW per \in Nat \ {0},
         \A i \in DOMAIN AutoCues(captions, per) :
           Len(AutoCues(captions, per)[i].text) <= MaxCueText
  PROVE  /\ SubtitlesPayload(AutoCues(captions, per))
         /\ ValidCues(AutoCues(captions, per))
<1> DEFINE cues == AutoCues(captions, per)
           captioned == Captioned(captions)
           m == Len(captioned)
           W == Seq(Words)
<1>1. DOMAIN captions = 1..Len(captions) /\ Len(captions) \in Nat
      /\ \A k \in 1..Len(captions) : captions[k] \in W
  <2> HIDE DEF W
  <2> QED
    BY ElementOfSeq DEF W
<1>2. /\ m \in Nat
      /\ \A i \in 1..m : captioned[i] \in 1..Len(captions) /\ captions[captioned[i]] # <<>>
      /\ \A a, b \in 1..m : a < b => captioned[a] < captioned[b]
  BY <1>1, CaptionedRises
<1>3. /\ DOMAIN cues = 1..m /\ Len(cues) = m
      /\ \A i \in 1..m : cues[i] = CueOf(captions, per, i - 1, captioned[i])
  BY <1>1, AutoCuesAre
<1> HIDE DEF cues, captioned, m
<1>4. ASSUME NEW i \in 1..m
      PROVE  /\ cues[i].index = i - 1 /\ cues[i].text = captions[captioned[i]]
             /\ cues[i].in = (captioned[i] - 1) * per /\ cues[i].out = captioned[i] * per
  BY <1>3 DEF CueOf
<1>5. ASSUME NEW i \in 1..m
      PROVE  /\ cues[i].index >= 0 /\ cues[i].in >= 0 /\ cues[i].out > cues[i].in
             /\ cues[i].text # <<>> /\ Len(cues[i].text) <= MaxCueText
             /\ Len(cues[i].text) \in 1..MaxCueText
  <2>1. captioned[i] \in Nat \ {0}
    BY <1>1, <1>2
  <2>3. cues[i].in >= 0 /\ cues[i].out > cues[i].in
    <3> DEFINE low == (captioned[i] - 1) * per
               high == captioned[i] * per
    <3>1. low \in Nat /\ high \in Nat /\ high > low
      BY <2>1, Multiples, Zenon
    <3>2. cues[i].in = low /\ cues[i].out = high
      BY <1>4, Zenon
    <3> HIDE DEF low, high
    <3> QED
      BY <3>1, <3>2
  <2>4. cues[i].text \in W /\ cues[i].text # <<>>
    BY <1>1, <1>2, <1>4
  <2>5. Len(cues[i].text) \in Nat \ {0}
    BY <2>4 DEF W
  <2>6. Len(cues[i].text) <= MaxCueText
    BY <1>3 DEF cues
  <2>7. MaxCueText \in Nat
    BY OverridesAssumption DEF OverridesAssumption
  <2> QED
    BY <1>2, <1>4, <2>3, <2>4, <2>5, <2>6, <2>7
<1>6. InOrder(cues)
  <2>1. ASSUME NEW i \in 2..m
        PROVE  cues[i].index > cues[i - 1].index /\ cues[i].in >= cues[i - 1].out
    <3>1. i \in 1..m /\ i - 1 \in 1..m /\ i - 1 < i
      BY <1>2
    <3>2. captioned[i] \in Nat /\ captioned[i - 1] \in Nat /\ captioned[i - 1] <= captioned[i] - 1
      BY <1>1, <1>2, <3>1
    <3>3. captioned[i] \in Nat \ {0} /\ captioned[i - 1] \in Nat \ {0}
      BY <1>2, <3>1, SMTT(30)
    <3> DEFINE low == (captioned[i] - 1) * per
               high == captioned[i - 1] * per
    <3>4. high <= low /\ low \in Nat /\ high \in Nat
      BY <3>2, <3>3, Multiples, Zenon
    <3>5. /\ cues[i].index = i - 1 /\ cues[i].in = low
          /\ cues[i - 1].index = (i - 1) - 1 /\ cues[i - 1].out = high
      BY <1>4, <3>1, Zenon
    <3> HIDE DEF low, high
    <3> QED
      BY <3>1, <3>4, <3>5
  <2> QED
    BY <1>3, <2>1 DEF InOrder
<1>7. SubtitlesPayload(cues)
  BY <1>3, <1>5, <1>6 DEF SubtitlesPayload, CueAccepted
<1>8. ValidCues(cues)
  BY <1>3, <1>5, <1>6 DEF ValidCues
<1> QED
  BY <1>7, <1>8 DEF cues

\* Where every segment has the length of a slide they are what the video draws.
LEMMA AutoCuesDrawn ==
  ASSUME NEW captions, NEW n \in Nat, DOMAIN captions = 1..n, Len(captions) = n,
         NEW t \in Templates, NEW intro \in Nat,
         \A k \in 1..n : SegmentLengths(t, n)[k] = t.per
  PROVE  DrawnCues(None, captions, t, intro)
           = {[text |-> c.text, in |-> c.in + intro, out |-> c.out + intro] :
              c \in Range(AutoCues(captions, t.per))}
<1> DEFINE per == t.per
           lengths == SegmentLengths(t, Len(captions))
           captioned == Captioned(captions)
           m == Len(captioned)
           cues == AutoCues(captions, per)
           shown(k) == [text |-> captions[k], in |-> intro + (k - 1) * per,
                        out |-> intro + k * per]
           later(c) == [text |-> c.text, in |-> c.in + intro, out |-> c.out + intro]
           start(k) == intro + StartOf(lengths, k)
           inside(k) == SegmentCues(None, captions[k], lengths[k])
           at(k, c) == [text |-> c.text, in |-> start(k) + c.in, out |-> start(k) + c.out]
           S == {k \in 1..n : captions[k] # <<>>}
           part(k) == {at(k, c) : c \in inside(k)}
<1>1. per \in Nat \ {0}
  BY DEF Templates
<1>2. lengths \in Seq(Nat) /\ Len(lengths) = n /\ \A k \in 1..n : lengths[k] = per
  BY LengthsAreNumbers
<1>3. ASSUME NEW k \in 1..n
      PROVE  part(k) = IF captions[k] = <<>> THEN {} ELSE {shown(k)}
  <2>1. StartOf(lengths, k) = (k - 1) * per
    BY <1>1, <1>2, EvenStarts
  <2> DEFINE whole == [text |-> captions[k], in |-> 0, out |-> per]
  <2>2. inside(k) = {c \in {whole} : c.text # <<>> /\ c.in < c.out}
    BY <1>2 DEF SegmentCues
  <2>3. whole.text = captions[k] /\ whole.in < whole.out
    BY <1>1
  <2>4. inside(k) = IF captions[k] = <<>> THEN {} ELSE {whole}
    <3> HIDE DEF whole, inside
    <3> QED
      BY <2>2, <2>3
  <2>5. at(k, whole) = shown(k)
    <3>1. start(k) + 0 = intro + (k - 1) * per
      BY <1>1, <2>1
    <3>2. start(k) + per = intro + k * per
      BY <1>1, <2>1
    <3> QED
      BY <3>1, <3>2
  <2> HIDE DEF whole, inside, at, shown
  <2> QED
    BY <2>4, <2>5
<1>4. DrawnCues(None, captions, t, intro)
        = UNION {part(k) : k \in DOMAIN captions}
  BY Zenon DEF DrawnCues
<1>5. DrawnCues(None, captions, t, intro) = {shown(k) : k \in S}
  <2> HIDE DEF part, shown
  <2> QED
    BY <1>3, <1>4
<1>6. /\ m \in Nat
      /\ \A i \in 1..m : captioned[i] \in S
      /\ \A k \in S : \E i \in 1..m : captioned[i] = k
  BY CaptionedRises
<1>7. DOMAIN cues = 1..m /\ \A i \in 1..m : cues[i] = CueOf(captions, per, i - 1, captioned[i])
  BY <1>1, AutoCuesAre
<1> HIDE DEF cues, captioned, m
<1>8. ASSUME NEW i \in 1..m
      PROVE  later(cues[i]) = shown(captioned[i])
  <2> DEFINE k == captioned[i]
  <2>1. k \in Nat
    BY <1>6
  <2>2. /\ cues[i].text = captions[k] /\ cues[i].in = (k - 1) * per
        /\ cues[i].out = k * per
    BY <1>7 DEF CueOf
  <2> HIDE DEF k
  <2>3. cues[i].in + intro = intro + (k - 1) * per /\ cues[i].out + intro = intro + k * per
    BY <1>1, <2>1, <2>2
  <2>4. later(cues[i]) = shown(k)
    BY <2>2, <2>3
  <2> QED
    BY <2>4 DEF k
<1>9. Range(cues) = {cues[i] : i \in 1..m}
  BY <1>7 DEF Range
<1> HIDE DEF shown, later, S
<1>10. {later(c) : c \in Range(cues)} = {shown(k) : k \in S}
  BY <1>6, <1>8, <1>9
<1> QED
  BY <1>5, <1>10, Zenon DEF later, cues

-----------------------------------------------------------------------------
(* Lists joined and files in pieces. *)

\* What has been summed up after k counts.
LEMMA Sums ==
  ASSUME NEW counts \in Seq(Nat)
  PROVE  /\ SumOf(counts, 0) = 0
         /\ \A k \in 1..Len(counts) :
              /\ SumOf(counts, k - 1) \in Nat
              /\ SumOf(counts, k) = SumOf(counts, k - 1) + counts[k]
<1>1. \A k : StartOf(counts, k) = SumOf(counts, k - 1)
  BY Zenon DEF StartOf
<1>2. SumOf(counts, 0) = 0
  <2>1. StartOf(counts, 1) = SumOf(counts, 1 - 1) /\ 1 - 1 = 0
    BY <1>1
  <2> QED
    BY <2>1, Starts
<1>3. ASSUME NEW k \in 1..Len(counts)
      PROVE  /\ SumOf(counts, k - 1) \in Nat
             /\ SumOf(counts, k) = SumOf(counts, k - 1) + counts[k]
  <2>1. (k + 1) - 1 = k
    OBVIOUS
  <2>2. StartOf(counts, k) = SumOf(counts, k - 1)
        /\ StartOf(counts, k + 1) = SumOf(counts, (k + 1) - 1)
    BY <1>1
  <2> QED
    BY <2>1, <2>2, Starts
<1> QED
  BY <1>2, <1>3

\* What has been joined after k lists.
LEMMA Joins ==
  ASSUME NEW S, NEW lists \in Seq(Seq(S))
  PROVE  /\ Joined(lists, 0) = <<>>
         /\ \A k \in 1..Len(lists) :
              /\ Joined(lists, k - 1) \in Seq(S) /\ Joined(lists, k) \in Seq(S)
              /\ Joined(lists, k) = Joined(lists, k - 1) \o lists[k]
<1> DEFINE n == Len(lists)
           A == Seq(S)
           step == [x \in (1..n) \X A |-> x[2] \o lists[x[1]]]
           joined == CHOOSE f : f = [i \in 0..n |-> IF i = 0 THEN <<>>
                                                    ELSE f[i - 1] \o lists[i]]
<1>1. n \in Nat /\ \A i \in 1..n : lists[i] \in A
  OBVIOUS
<1>2. step \in [(1..n) \X A -> A] /\ <<>> \in A
  BY <1>1
<1>3. ASSUME NEW i \in 1..n, NEW t \in A
      PROVE  step[<<i, t>>] = t \o lists[i]
  OBVIOUS
<1>4. \A k : Joined(lists, k) = joined[k]
  BY Zenon DEF Joined
<1> HIDE DEF n, step, A
<1>5. PICK f : Computes(f, n, A, <<>>, step)
  BY <1>1, <1>2, Recursion
<1>6. ASSUME NEW i \in 0..n
      PROVE  f[i] = IF i = 0 THEN <<>> ELSE f[i - 1] \o lists[i]
  <2>1. f[i] = IF i = 0 THEN <<>> ELSE step[<<i, f[i - 1]>>]
    BY <1>5, Zenon DEF Computes
  <2>2. f \in [0..n -> A]
    BY <1>5, Zenon DEF Computes
  <2>3. i # 0 => i \in 1..n /\ f[i - 1] \in A
    BY <1>1, <2>2
  <2> QED
    BY <1>3, <2>1, <2>3
<1>7. f = [i \in 0..n |-> IF i = 0 THEN <<>> ELSE f[i - 1] \o lists[i]]
  <2>1. f = [i \in 0..n |-> f[i]]
    BY <1>5 DEF Computes
  <2> QED
    BY <1>6, <2>1
<1>8. joined = [i \in 0..n |-> IF i = 0 THEN <<>> ELSE joined[i - 1] \o lists[i]]
  BY <1>7, Zenon
<1> HIDE DEF joined
<1>9. ASSUME NEW i \in 0..n
      PROVE  joined[i] = IF i = 0 THEN <<>> ELSE joined[i - 1] \o lists[i]
  BY <1>8
<1> DEFINE T == {i \in 0..n : joined[i] \in A}
<1>10. 0 \in T
  BY <1>1, <1>2, <1>9
<1>11. ASSUME NEW i \in 0..n, i # n, i \in T
       PROVE  i + 1 \in T
  <2>1. i + 1 \in 0..n /\ i + 1 \in 1..n /\ i + 1 # 0 /\ (i + 1) - 1 = i
    BY <1>1, <1>11
  <2>2. joined[i + 1] = joined[i] \o lists[i + 1]
    BY <1>9, <2>1
  <2>3. joined[i] \o lists[i + 1] \in A
    BY <1>1, <1>11, <2>1 DEF A
  <2> QED
    BY <2>1, <2>2, <2>3
<1> HIDE DEF T
<1>12. \A i \in 0..n : i \in T
  BY <1>1, <1>10, <1>11, UpTo
<1>13. \A i \in 0..n : joined[i] \in A
  BY <1>12 DEF T
<1>14. Joined(lists, 0) = <<>>
  BY <1>1, <1>4, <1>9
<1>15. ASSUME NEW k \in 1..n
       PROVE  /\ Joined(lists, k - 1) \in A /\ Joined(lists, k) \in A
              /\ Joined(lists, k) = Joined(lists, k - 1) \o lists[k]
  <2>1. k - 1 \in 0..n /\ k \in 0..n /\ k # 0
    BY <1>1
  <2>2. joined[k] = joined[k - 1] \o lists[k]
    BY <1>9, <2>1
  <2>3. Joined(lists, k - 1) = joined[k - 1] /\ Joined(lists, k) = joined[k]
    BY <1>4
  <2> QED
    BY <1>13, <2>1, <2>2, <2>3
<1> QED
  BY <1>14, <1>15 DEF n, A

\* Lists joined are as long as their lengths sum up to.
LEMMA JoinedLength ==
  ASSUME NEW S, NEW lists \in Seq(Seq(S)), NEW counts \in Seq(Nat),
         Len(counts) = Len(lists),
         \A i \in 1..Len(lists) : Len(lists[i]) = counts[i]
  PROVE  /\ Joined(lists, Len(lists)) \in Seq(S)
         /\ Len(Joined(lists, Len(lists))) = SumOf(counts, Len(counts))
<1> DEFINE n == Len(lists)
           T == {k \in 0..n : /\ Joined(lists, k) \in Seq(S)
                              /\ Len(Joined(lists, k)) = SumOf(counts, k)}
<1>1. n \in Nat /\ \A i \in 1..n : lists[i] \in Seq(S)
  OBVIOUS
<1>2. 0 \in T
  <2>1. Joined(lists, 0) = <<>> /\ SumOf(counts, 0) = 0
    BY Joins, Sums
  <2>2. <<>> \in Seq(S) /\ Len(<<>>) = 0
    OBVIOUS
  <2>3. Joined(lists, 0) \in Seq(S) /\ Len(Joined(lists, 0)) = SumOf(counts, 0)
    BY <2>1, <2>2, Zenon
  <2>4. 0 \in 0..n
    BY <1>1
  <2> QED
    BY <2>3, <2>4, Zenon
<1>3. ASSUME NEW k \in 0..n, k # n, k \in T
      PROVE  k + 1 \in T
  <2>1. k + 1 \in 1..n /\ k + 1 \in 0..n /\ (k + 1) - 1 = k
    BY <1>1, <1>3
  <2>2. /\ Joined(lists, k + 1) \in Seq(S)
        /\ Joined(lists, k + 1) = Joined(lists, (k + 1) - 1) \o lists[k + 1]
    BY <2>1, Joins
  <2>3. SumOf(counts, k + 1) = SumOf(counts, (k + 1) - 1) + counts[k + 1]
    BY <2>1, Sums
  <2>4. Len(Joined(lists, k) \o lists[k + 1]) = Len(Joined(lists, k)) + Len(lists[k + 1])
    BY <1>1, <1>3, <2>1
  <2> QED
    BY <1>3, <2>1, <2>2, <2>3, <2>4
<1> HIDE DEF T
<1>4. \A k \in 0..n : k \in T
  BY <1>1, <1>2, <1>3, UpTo
<1>5. n \in T
  BY <1>1, <1>4
<1> QED
  BY <1>5 DEF T

\* The parts of a Range header.
Parts == [kind : {"between"}, a : Nat, b : Nat] \cup [kind : {"from"}, a : Nat]
         \cup [kind : {"last"}, n : Nat] \cup [kind : {"words"}]

\* A part that can be satisfied is of positions the file has.
LEMMA PartInFile ==
  ASSUME NEW size \in Nat, NEW part \in Parts, Satisfiable(part, size)
  PROVE  /\ PartStart(part, size) \in Nat /\ PartEnd(part, size) \in Nat
         /\ PartStart(part, size) <= PartEnd(part, size)
         /\ PartEnd(part, size) < size
<1>1. /\ part.kind # "words"
      /\ PartEnd(part, size) < size
      /\ PartStart(part, size) <= PartEnd(part, size)
  BY DEF Satisfiable
<1>2. PartStart(part, size) \in Nat
  <2>1. CASE part \in [kind : {"last"}, n : Nat]
    <3>1. part.n \in Nat /\ PartStart(part, size) = Max({size - part.n, 0})
      BY <2>1 DEF PartStart
    <3>2. size - part.n \in Int /\ 0 \in Int
      BY <3>1
    <3>3. Max({size - part.n, 0}) = IF size - part.n >= 0 THEN size - part.n ELSE 0
      BY <3>2, OfTwo, Zenon
    <3> QED
      BY <3>1, <3>2, <3>3
  <2>2. CASE part \in [kind : {"between"}, a : Nat, b : Nat]
    BY <2>2 DEF PartStart
  <2>3. CASE part \in [kind : {"from"}, a : Nat]
    BY <2>3 DEF PartStart
  <2> QED
    BY <1>1, <2>1, <2>2, <2>3 DEF Parts
<1>3. PartEnd(part, size) \in Int
  BY <1>1 DEF PartEnd, Parts
<1> QED
  BY <1>1, <1>2, <1>3

\* What is read of a file between two of its positions.
LEMMA PieceOfFile ==
  ASSUME NEW S, NEW file \in Seq(S), NEW start \in Nat, NEW end \in Nat,
         start <= end, end < Len(file)
  PROVE  /\ FileRange(file, start, end) \in Seq(S)
         /\ Len(FileRange(file, start, end)) = end - start + 1
         /\ \A i \in 1..(end - start + 1) : FileRange(file, start, end)[i] = file[start + i]
<1>1. Len(file) \in Int /\ end + 1 \in Int /\ start + 1 \in Int
  OBVIOUS
<1>2. Min({end + 1, Len(file)}) = IF end + 1 <= Len(file) THEN end + 1 ELSE Len(file)
  BY <1>1, OfTwo, Zenon
<1>3. Min({end + 1, Len(file)}) = end + 1
  BY <1>1, <1>2
<1>4. FileRange(file, start, end) = SubSeq(file, start + 1, end + 1)
  BY <1>3 DEF FileRange
<1>5. \A i \in (start + 1)..(end + 1) : file[i] \in S
  BY <1>1
<1>6. /\ SubSeq(file, start + 1, end + 1) \in Seq(S)
      /\ Len(SubSeq(file, start + 1, end + 1))
           = IF start + 1 <= end + 1 THEN (end + 1) - (start + 1) + 1 ELSE 0
      /\ \A i \in 1..((end + 1) - (start + 1) + 1) :
           SubSeq(file, start + 1, end + 1)[i] = file[(start + 1) + i - 1]
  BY <1>1, <1>5, SubSeqProperties
<1>7. (end + 1) - (start + 1) + 1 = end - start + 1
  OBVIOUS
<1>8. \A i \in 1..(end - start + 1) : (start + 1) + i - 1 = start + i
  OBVIOUS
<1> QED
  BY <1>4, <1>6, <1>7, <1>8

\* What RangeResponse says of build_range_response: whatever is asked of a file, in
\* however many parts, as many bytes are sent as the headers announced.
THEOREM SentAsAnnounced ==
  ASSUME NEW S, NEW file \in Seq(S), NEW parts \in Seq(Parts)
  PROVE  /\ RangeResponse(file, parts).body \in Seq(S)
         /\ Len(RangeResponse(file, parts).body) = RangeResponse(file, parts).length
<1> DEFINE size == Len(file)
           starts == [i \in DOMAIN parts |-> PartStart(parts[i], size)]
           ends == [i \in DOMAIN parts |-> PartEnd(parts[i], size)]
           counts == [i \in DOMAIN parts |-> ends[i] - starts[i] + 1]
           pieces == [i \in DOMAIN parts |-> FileRange(file, starts[i], ends[i])]
           some == \E i \in DOMAIN parts : ~Satisfiable(parts[i], size)
           sent == [status |-> 206, length |-> SumOf(counts, Len(counts)),
                    body |-> Joined(pieces, Len(pieces))]
<1>1. RangeResponse(file, parts) =
        IF parts = <<>> THEN [status |-> 200, length |-> size, body |-> file]
        ELSE IF some THEN [status |-> 416, length |-> 0, body |-> <<>>] ELSE sent
  BY Zenon DEF RangeResponse
<1>2. CASE parts = <<>>
  BY <1>1, <1>2
<1>3. CASE parts # <<>> /\ some
  BY <1>1, <1>3
<1>4. CASE parts # <<>> /\ ~some
  <2>1. size \in Nat /\ DOMAIN parts = 1..Len(parts) /\ Len(parts) \in Nat
    OBVIOUS
  <2>2. ASSUME NEW i \in DOMAIN parts
        PROVE  /\ counts[i] \in Nat /\ pieces[i] \in Seq(S)
               /\ Len(pieces[i]) = counts[i]
    <3>1. parts[i] \in Parts /\ Satisfiable(parts[i], size)
      BY <1>4
    <3>2. /\ PartStart(parts[i], size) \in Nat /\ PartEnd(parts[i], size) \in Nat
          /\ PartStart(parts[i], size) <= PartEnd(parts[i], size)
          /\ PartEnd(parts[i], size) < size
      BY <2>1, <3>1, PartInFile
    <3>3. starts[i] = PartStart(parts[i], size) /\ ends[i] = PartEnd(parts[i], size)
      OBVIOUS
    <3>4. counts[i] = ends[i] - starts[i] + 1
          /\ pieces[i] = FileRange(file, starts[i], ends[i])
      OBVIOUS
    <3> HIDE DEF starts, ends, counts, pieces, some
    <3>5. starts[i] \in Nat /\ ends[i] \in Nat /\ starts[i] <= ends[i] /\ ends[i] < Len(file)
      BY <3>2, <3>3
    <3>6. FileRange(file, starts[i], ends[i]) \in Seq(S)
          /\ Len(FileRange(file, starts[i], ends[i])) = ends[i] - starts[i] + 1
      BY <3>5, PieceOfFile, SMTT(30)
    <3> QED
      BY <3>4, <3>5, <3>6
  <2>3. DOMAIN counts = DOMAIN parts /\ DOMAIN pieces = DOMAIN parts
    OBVIOUS
  <2>4. counts = [i \in 1..Len(parts) |-> counts[i]]
        /\ pieces = [i \in 1..Len(parts) |-> pieces[i]]
    BY <2>1
  <2> HIDE DEF counts, pieces, some
  <2>5. counts \in Seq(Nat) /\ Len(counts) = Len(parts)
    BY <2>1, <2>2, <2>4
  <2>6. pieces \in Seq(Seq(S)) /\ Len(pieces) = Len(parts)
    BY <2>1, <2>2, <2>4
  <2>7. \A i \in 1..Len(pieces) : Len(pieces[i]) = counts[i]
    BY <2>1, <2>2, <2>6
  <2>8. /\ Joined(pieces, Len(pieces)) \in Seq(S)
        /\ Len(Joined(pieces, Len(pieces))) = SumOf(counts, Len(counts))
    BY <2>5, <2>6, <2>7, JoinedLength
  <2>9. RangeResponse(file, parts) = sent
    BY <1>1, <1>4
  <2> QED
    BY <2>8, <2>9
<1> QED
  BY <1>2, <1>3, <1>4

\* Two parts that meet at a position, the first from the start, the second to the end.
Meeting(first, second, size, k) ==
  /\ first \in Parts /\ second \in Parts
  /\ PartStart(first, size) = 0 /\ PartEnd(first, size) = k - 1
  /\ PartStart(second, size) = k /\ PartEnd(second, size) = size - 1
  /\ Satisfiable(first, size) /\ Satisfiable(second, size)

\* Two parts that meet are the file.
LEMMA TwoParts ==
  ASSUME NEW S, NEW file \in Seq(S), NEW k \in 1..(Len(file) - 1), NEW first, NEW second,
         Meeting(first, second, Len(file), k)
  PROVE  RangeResponse(file, <<first, second>>).body = file
<1> DEFINE size == Len(file)
           parts == <<first, second>>
           starts == [i \in DOMAIN parts |-> PartStart(parts[i], size)]
           ends == [i \in DOMAIN parts |-> PartEnd(parts[i], size)]
           counts == [i \in DOMAIN parts |-> ends[i] - starts[i] + 1]
           pieces == [i \in DOMAIN parts |-> FileRange(file, starts[i], ends[i])]
           some == \E i \in DOMAIN parts : ~Satisfiable(parts[i], size)
           sent == [status |-> 206, length |-> SumOf(counts, Len(counts)),
                    body |-> Joined(pieces, Len(pieces))]
           head == FileRange(file, 0, k - 1)
           tail == FileRange(file, k, size - 1)
<1>m. /\ first \in Parts /\ second \in Parts
      /\ PartStart(first, size) = 0 /\ PartEnd(first, size) = k - 1
      /\ PartStart(second, size) = k /\ PartEnd(second, size) = size - 1
      /\ Satisfiable(first, size) /\ Satisfiable(second, size)
  BY DEF Meeting
<1>1. RangeResponse(file, parts) =
        IF parts = <<>> THEN [status |-> 200, length |-> size, body |-> file]
        ELSE IF some THEN [status |-> 416, length |-> 0, body |-> <<>>] ELSE sent
  BY Zenon DEF RangeResponse
<1>2. /\ parts # <<>> /\ DOMAIN parts = 1..2 /\ parts[1] = first /\ parts[2] = second
      /\ size \in Nat /\ k \in Nat /\ k - 1 \in Nat /\ size - 1 \in Nat /\ k <= size - 1
  OBVIOUS
<1>3. ~some
  <2> HIDE DEF parts
  <2> QED
    BY <1>m, <1>2
<1>4. starts[1] = 0 /\ starts[2] = k /\ ends[1] = k - 1 /\ ends[2] = size - 1
  <2> HIDE DEF parts
  <2> QED
    BY <1>m, <1>2
<1>5. DOMAIN pieces = 1..2 /\ pieces[1] = head /\ pieces[2] = tail
  <2> HIDE DEF parts, starts, ends, head, tail
  <2>1. 1 \in DOMAIN parts /\ 2 \in DOMAIN parts
    BY <1>2
  <2>2. pieces[1] = FileRange(file, starts[1], ends[1])
        /\ pieces[2] = FileRange(file, starts[2], ends[2])
    BY <2>1
  <2> QED
    BY <1>2, <1>4, <2>2 DEF head, tail
<1>6. pieces = [i \in 1..2 |-> pieces[i]]
  BY <1>5
<1>7. RangeResponse(file, parts).body = Joined(pieces, Len(pieces))
  BY <1>1, <1>2, <1>3
<1> HIDE DEF pieces, parts
<1>8. /\ head \in Seq(S) /\ Len(head) = k /\ \A i \in 1..k : head[i] = file[i]
  <2>1. /\ head \in Seq(S) /\ Len(head) = (k - 1) - 0 + 1
        /\ \A i \in 1..((k - 1) - 0 + 1) : head[i] = file[0 + i]
    BY <1>2, PieceOfFile
  <2>2. (k - 1) - 0 + 1 = k /\ \A i \in 1..k : 0 + i = i
    BY <1>2
  <2> HIDE DEF head
  <2> QED
    BY <2>1, <2>2
<1>9. /\ tail \in Seq(S) /\ Len(tail) = size - k
      /\ \A i \in 1..(size - k) : tail[i] = file[k + i]
  <2>1. /\ tail \in Seq(S) /\ Len(tail) = (size - 1) - k + 1
        /\ \A i \in 1..((size - 1) - k + 1) : tail[i] = file[k + i]
    BY <1>2, PieceOfFile
  <2>2. (size - 1) - k + 1 = size - k
    BY <1>2
  <2> HIDE DEF tail
  <2> QED
    BY <2>1, <2>2
<1> HIDE DEF head, tail
<1>10. pieces \in Seq(Seq(S)) /\ Len(pieces) = 2
  <2>1. \A i \in 1..2 : pieces[i] \in Seq(S)
    BY <1>5, <1>8, <1>9
  <2> QED
    BY <1>6, <2>1
<1>11. Joined(pieces, 2) = head \o tail
  <2>1. Joined(pieces, 0) = <<>>
    BY <1>10, Joins
  <2>2. \A i \in 1..2 : Joined(pieces, i) = Joined(pieces, i - 1) \o pieces[i]
    BY <1>10, Joins
  <2>3. Joined(pieces, 1) = Joined(pieces, 1 - 1) \o pieces[1]
        /\ Joined(pieces, 2) = Joined(pieces, 2 - 1) \o pieces[2]
    BY <2>2
  <2>4. 1 - 1 = 0 /\ 2 - 1 = 1
    OBVIOUS
  <2>5. Joined(pieces, 1) = <<>> \o head /\ Joined(pieces, 2) = Joined(pieces, 1) \o tail
    BY <1>5, <2>1, <2>3, <2>4
  <2>6. <<>> \o head = head
    BY <1>8, ConcatEmptySeq
  <2> QED
    BY <2>5, <2>6
<1>12. head \o tail = file
  <2> DEFINE whole == head \o tail
  <2>1. /\ whole \in Seq(S) /\ Len(whole) = k + (size - k)
        /\ \A i \in 1..(k + (size - k)) : whole[i] = IF i <= k THEN head[i] ELSE tail[i - k]
    <3>1. /\ whole \in Seq(S) /\ Len(whole) = Len(head) + Len(tail)
          /\ \A i \in 1..(Len(head) + Len(tail)) :
               whole[i] = IF i <= Len(head) THEN head[i] ELSE tail[i - Len(head)]
      BY <1>8, <1>9, ConcatProperties, Zenon
    <3> HIDE DEF whole
    <3> QED
      BY <1>8, <1>9, <3>1
  <2>2. k + (size - k) = size
    BY <1>2
  <2> HIDE DEF whole
  <2>3. ASSUME NEW i \in 1..size
        PROVE  whole[i] = file[i]
    <3>1. CASE i <= k
      BY <1>2, <1>8, <2>1, <2>2, <3>1
    <3>2. CASE i > k
      <4>1. i - k \in 1..(size - k) /\ k + (i - k) = i /\ ~(i <= k)
        BY <1>2, <3>2
      <4> QED
        BY <1>9, <2>1, <2>2, <4>1
    <3> QED
      BY <1>2, <3>1, <3>2
  <2>4. DOMAIN whole = 1..size /\ DOMAIN file = 1..size
    BY <2>1, <2>2
  <2>5. whole = [i \in 1..size |-> whole[i]] /\ file = [i \in 1..size |-> file[i]]
    BY <2>1, <2>4
  <2> QED
    BY <2>3, <2>5 DEF whole
<1> QED
  BY <1>7, <1>10, <1>11, <1>12 DEF parts

\* What is asked of a file are parts of a Range header.
LEMMA AskedAreParts ==
  ASSUME NEW size \in Nat
  PROVE  PartsOf(size) \subseteq Parts
<1>1. 0..size \subseteq Nat /\ 0..(size + 1) \subseteq Nat
  OBVIOUS
<1> QED
  BY <1>1 DEF PartsOf, Parts, RestPart, LastPart

\* The parts that meet at a position.
LEMMA PartsMeet ==
  ASSUME NEW size \in Nat, NEW k \in 1..(size - 1)
  PROVE  /\ Meeting(FirstPart(k), RestPart(k), size, k)
         /\ Meeting(FirstPart(k), LastPart(size - k), size, k)
<1>1. k \in Nat /\ k - 1 \in Nat /\ size - k \in Nat /\ size - k > 0
      /\ size - (size - k) = k /\ k - 1 < size /\ k <= size - 1 /\ size - 1 < size
  OBVIOUS
<1>2. FirstPart(k) \in Parts /\ RestPart(k) \in Parts /\ LastPart(size - k) \in Parts
  BY <1>1 DEF Parts, FirstPart, RestPart, LastPart
<1>3. Max({size - (size - k), 0}) = k
  <2>1. size - (size - k) \in Int /\ 0 \in Int
    BY <1>1
  <2>2. Max({size - (size - k), 0}) = IF size - (size - k) >= 0 THEN size - (size - k) ELSE 0
    BY <2>1, OfTwo, Zenon
  <2> QED
    BY <1>1, <2>2
<1>4. PartStart(FirstPart(k), size) = 0 /\ PartEnd(FirstPart(k), size) = k - 1
  BY DEF PartStart, PartEnd, FirstPart
<1>5. PartStart(RestPart(k), size) = k /\ PartEnd(RestPart(k), size) = size - 1
  BY DEF PartStart, PartEnd, RestPart
<1>6. PartStart(LastPart(size - k), size) = k /\ PartEnd(LastPart(size - k), size) = size - 1
  BY <1>3 DEF PartStart, PartEnd, LastPart
<1>7. /\ FirstPart(k).kind = "between" /\ RestPart(k).kind = "from"
      /\ LastPart(size - k).kind = "last" /\ LastPart(size - k).n = size - k
  BY DEF FirstPart, RestPart, LastPart
<1>8. Satisfiable(FirstPart(k), size)
  BY <1>1, <1>4, <1>7 DEF Satisfiable
<1>9. Satisfiable(RestPart(k), size)
  BY <1>1, <1>5, <1>7 DEF Satisfiable
<1>10. Satisfiable(LastPart(size - k), size)
  BY <1>1, <1>6, <1>7 DEF Satisfiable
<1> QED
  BY <1>2, <1>4, <1>5, <1>6, <1>8, <1>9, <1>10 DEF Meeting

\* What Streams says of build_range_response, for a file of any size: a player gets as
\* many bytes as announced, and the whole file from two parts that meet.
THEOREM FilesStream ==
  ASSUME NEW size \in Nat
  PROVE  Streams(size)
<1> DEFINE file == [i \in 1..size |-> i]
<1>1. file \in Seq(Nat) /\ Len(file) = size
  OBVIOUS
<1> HIDE DEF file
<1>2. \A parts \in Seq(Parts) : SentWhole(file, parts)
  BY <1>1, SentAsAnnounced DEF SentWhole
<1>3. SentWhole(file, <<>>)
  <2>1. <<>> \in Seq(Parts)
    OBVIOUS
  <2> QED
    BY <1>2, <2>1
<1>4. ASSUME NEW p \in PartsOf(size), NEW q \in PartsOf(size)
      PROVE  SentWhole(file, <<p>>) /\ SentWhole(file, <<p, q>>)
  <2>1. p \in Parts /\ q \in Parts
    BY AskedAreParts
  <2>2. <<p>> \in Seq(Parts) /\ <<p, q>> \in Seq(Parts)
    BY <2>1
  <2> QED
    BY <1>2, <2>2
<1>5. ASSUME NEW k \in 1..(size - 1)
      PROVE  /\ RangeResponse(file, <<FirstPart(k), RestPart(k)>>).body = file
             /\ RangeResponse(file, <<FirstPart(k), LastPart(size - k)>>).body = file
  <2>1. k \in 1..(Len(file) - 1)
    BY <1>1
  <2>2. /\ Meeting(FirstPart(k), RestPart(k), Len(file), k)
        /\ Meeting(FirstPart(k), LastPart(size - k), Len(file), k)
    BY <1>1, PartsMeet
  <2> QED
    BY <1>1, <2>1, <2>2, TwoParts
<1> QED
  BY <1>3, <1>4, <1>5, Zenon DEF Streams, file

-----------------------------------------------------------------------------
(* The list of reels. *)

\* The places the reel may have among the rows of the agency.
Places == 0..Len(Others)

\* Wherever the reel stands, the rows are a list with the reel there.
LEMMA RowsAreList ==
  ASSUME NEW place \in Places
  PROVE  /\ RowsAt(place) \in Seq(Range(RowsAt(place)))
         /\ Len(RowsAt(place)) = 1 + Len(Others) /\ Len(RowsAt(place)) \in Nat \ {0}
         /\ RowsAt(place)[place + 1] = reel
<1> DEFINE S == {reel} \cup Range(Others)
           before == SubSeq(Others, 1, place)
           after == SubSeq(Others, place + 1, Len(Others))
           rows == (before \o <<reel>>) \o after
<1>1. Others \in Seq(Range(Others))
  BY ContentAssumption DEF ContentAssumption
<1>2. Others \in Seq(S) /\ Len(Others) \in Nat /\ place \in Nat /\ place <= Len(Others)
  BY <1>1 DEF Places
<1>3. /\ \A i \in 1..place : Others[i] \in S
      /\ \A i \in place + 1..Len(Others) : Others[i] \in S
  BY <1>2
<1> HIDE DEF S
<1>4. before \in Seq(S) /\ Len(before) = place
  <2>1. 1 \in Int /\ place \in Int
    BY <1>2
  <2>2. /\ before \in Seq(S)
        /\ Len(before) = IF 1 <= place THEN place - 1 + 1 ELSE 0
    BY <1>3, <2>1, SubSeqProperties
  <2> QED
    BY <1>2, <2>2
<1>5. after \in Seq(S) /\ Len(after) = Len(Others) - place
  <2>1. place + 1 \in Int /\ Len(Others) \in Int
    BY <1>2
  <2>2. /\ after \in Seq(S)
        /\ Len(after) = IF place + 1 <= Len(Others) THEN Len(Others) - (place + 1) + 1 ELSE 0
    BY <1>3, <2>1, SubSeqProperties
  <2> QED
    BY <1>2, <2>2
<1> HIDE DEF before, after
<1>6. reel \in S
  BY DEF S
<1>7. rows \in Seq(S) /\ Len(rows) = 1 + Len(Others) /\ rows[place + 1] = reel
  <2> DEFINE start == before \o <<reel>>
  <2>1. <<reel>> \in Seq(S) /\ Len(<<reel>>) = 1 /\ <<reel>>[1] = reel
    BY <1>6
  <2>2. start \in Seq(S) /\ Len(start) = place + 1
    BY <1>2, <1>4, <2>1, ConcatProperties
  <2>3. start[place + 1] = reel
    <3>1. place + 1 \in 1..Len(before) + Len(<<reel>>)
      BY <1>2, <1>4, <2>1
    <3>2. start[place + 1] = <<reel>>[(place + 1) - Len(before)]
      BY <1>2, <1>4, <2>1, <3>1, ConcatProperties
    <3>3. (place + 1) - Len(before) = 1
      BY <1>2, <1>4
    <3> QED
      BY <2>1, <3>2, <3>3
  <2> HIDE DEF start
  <2>4. rows = start \o after
    BY DEF rows, start
  <2> HIDE DEF rows
  <2>5. rows \in Seq(S) /\ Len(rows) = (place + 1) + (Len(Others) - place)
    <3>1. /\ start \o after \in Seq(S)
          /\ Len(start \o after) = Len(start) + Len(after)
      BY <1>5, <2>2, ConcatProperties, Zenon
    <3> QED
      BY <1>5, <2>2, <2>4, <3>1, Zenon
  <2>6. place + 1 \in 1..Len(start) + Len(after) /\ place + 1 <= Len(start)
    BY <1>2, <1>5, <2>2
  <2>7. rows[place + 1] = start[place + 1]
    <3>1. (start \o after)[place + 1] = start[place + 1]
      BY <1>5, <2>2, <2>6, ConcatProperties
    <3> QED
      BY <2>4, <3>1, Zenon
  <2> QED
    BY <1>2, <2>3, <2>5, <2>7
<1>8. RowsAt(place) = rows
  <2>1. (place + 1) - 1 = place
    BY <1>2
  <2> QED
    BY <2>1 DEF RowsAt, InsertAt, before, after
<1> HIDE DEF rows
<1>9. DOMAIN rows = 1..Len(rows) /\ Len(rows) \in Nat
  BY <1>7
<1>10. rows = [i \in 1..Len(rows) |-> rows[i]]
  BY <1>7, <1>9
<1>11. \A i \in 1..Len(rows) : rows[i] \in Range(rows)
  BY <1>9 DEF Range
<1>12. rows \in Seq(Range(rows))
  BY <1>9, <1>10, <1>11
<1>13. Len(rows) # 0
  BY <1>2, <1>7
<1> QED
  BY <1>7, <1>8, <1>9, <1>12, <1>13

\* The reels the editor is looking for with the search for a state.
Hits(place) == Matching(RowsAt(place), SearchFor(reel, None, None))

\* Whatever the page, the search finds the same rows.
LEMMA SameHits ==
  ASSUME NEW place, NEW page, NEW size
  PROVE  Matching(RowsAt(place), SearchFor(reel, page, size)) = Hits(place)
<1>1. \A row : Matches(row, SearchFor(reel, page, size))
                 <=> Matches(row, SearchFor(reel, None, None))
  BY DEF Matches, SearchFor
<1>2. {row \in Range(RowsAt(place)) : Matches(row, SearchFor(reel, page, size))}
        = {row \in Range(RowsAt(place)) : Matches(row, SearchFor(reel, None, None))}
  BY <1>1
<1> QED
  BY <1>2, Zenon DEF Matching, Hits

\* The search is accepted, for any state a row may be in.
LEMMA SearchAccepted ==
  ASSUME reel \in ReelRows, NEW page, NEW size
  PROVE  Accepted(SearchFor(reel, page, size))
<1>1. States \subseteq FilterStates /\ Statuses \ {""} \subseteq FilterStatuses
  BY DEF States, FilterStates, Statuses, FilterStatuses
<1>2. reel.ws \in States /\ reel.ps \in Statuses
  BY DEF ReelRows
<1>3. SearchFor(reel, page, size).states = <<reel.ws>>
      /\ SearchFor(reel, page, size).statuses = IF reel.ps = "" THEN <<>> ELSE <<reel.ps>>
  BY DEF SearchFor
<1>4. \A v : Range(<<v>>) = {v}
  BY DEF Range
<1>5. Range(<<>>) = {}
  BY DEF Range
<1> HIDE DEF States, FilterStates, Statuses, FilterStatuses
<1>6. FilterAccepted(SearchFor(reel, page, size).states, FilterStates)
  <2>1. Range(SearchFor(reel, page, size).states) = {reel.ws}
    BY <1>3, <1>4, Zenon
  <2>2. {reel.ws} \subseteq FilterStates
    BY <1>1, <1>2, Zenon
  <2> QED
    BY <2>1, <2>2, Zenon DEF FilterAccepted
<1>7. FilterAccepted(SearchFor(reel, page, size).statuses, FilterStatuses)
  <2>1. CASE reel.ps = ""
    <3>1. Range(SearchFor(reel, page, size).statuses) = {}
      BY <1>3, <1>5, <2>1, Zenon
    <3> QED
      BY <3>1, Zenon DEF FilterAccepted
  <2>2. CASE reel.ps # ""
    <3>1. Range(SearchFor(reel, page, size).statuses) = {reel.ps}
      BY <1>3, <1>4, <2>2, Zenon
    <3>2. {reel.ps} \subseteq FilterStatuses
      BY <1>1, <1>2, <2>2, Zenon
    <3> QED
      BY <3>1, <3>2, Zenon DEF FilterAccepted
  <2> QED
    BY <2>1, <2>2
<1> QED
  BY <1>6, <1>7 DEF Accepted

\* The search finds the reel among rows of the agency.
LEMMA ReelIsHit ==
  ASSUME NEW place \in Places
  PROVE  /\ Hits(place) \in Seq(Range(RowsAt(place)))
         /\ Len(Hits(place)) \in Nat /\ Len(Hits(place)) <= Len(RowsAt(place))
         /\ \E k \in 1..Len(Hits(place)) : Hits(place)[k] = reel
<1> DEFINE query == SearchFor(reel, None, None)
           S == {row \in Range(RowsAt(place)) : Matches(row, query)}
<1>1. Hits(place) = Only(RowsAt(place), S)
  BY Zenon DEF Hits, Matching
<1>2. Matches(reel, query)
  <2>1. query.states = <<reel.ws>> /\ query.q = Listings[reel.listing].slug
        /\ query.statuses = IF reel.ps = "" THEN <<>> ELSE <<reel.ps>>
    BY DEF SearchFor
  <2>2. \A v : Contains(<<v>>, v)
    BY DEF Contains
  <2> HIDE DEF query
  <2> QED
    BY <2>1, <2>2 DEF Matches, Searched
<1>3. reel \in Range(RowsAt(place))
  <2>1. place + 1 \in DOMAIN RowsAt(place)
    <3> DEFINE X == Range(RowsAt(place))
    <3>1. /\ RowsAt(place) \in Seq(X)
          /\ Len(RowsAt(place)) = 1 + Len(Others) /\ Len(RowsAt(place)) \in Nat
      BY RowsAreList
    <3> HIDE DEF X
    <3>2. DOMAIN RowsAt(place) = 1..Len(RowsAt(place))
      BY <3>1, LenProperties
    <3>3. place + 1 \in 1..(1 + Len(Others))
      BY <3>1 DEF Places
    <3> QED
      BY <3>1, <3>2, <3>3
  <2> QED
    BY <2>1, RowsAreList DEF Range
<1> HIDE DEF query
<1>4. reel \in S
  BY <1>2, <1>3
<1> HIDE DEF S
<1>5. /\ Only(RowsAt(place), S) \in Seq(Range(RowsAt(place)))
      /\ Len(Only(RowsAt(place), S)) <= Len(RowsAt(place))
      /\ Range(Only(RowsAt(place), S)) = Range(RowsAt(place)) \cap S
  BY RowsAreList, OnlyKeeps
<1>6. reel \in Range(Hits(place))
  BY <1>1, <1>3, <1>4, <1>5
<1>7. DOMAIN Hits(place) = 1..Len(Hits(place)) /\ Len(Hits(place)) \in Nat
  BY <1>1, <1>5
<1> QED
  BY <1>1, <1>5, <1>6, <1>7 DEF Range

\* What the editor may see of the rows.
ItemsAt(place) == {Item(row) : row \in Range(RowsAt(place))}

\* A page of one row: the row of its number, if there are so many.
LEMMA SmallPage ==
  ASSUME reel \in ReelRows, NEW place \in Places, NEW page \in Nat \ {0}
  PROVE  /\ ListReels(RowsAt(place), SearchFor(reel, page, 0)).items \in Seq(ItemsAt(place))
         /\ Len(ListReels(RowsAt(place), SearchFor(reel, page, 0)).items)
              = IF page <= Len(Hits(place)) THEN 1 ELSE 0
         /\ page <= Len(Hits(place)) =>
              ListReels(RowsAt(place), SearchFor(reel, page, 0)).items[1] = Item(Hits(place)[page])
         /\ ListReels(RowsAt(place), SearchFor(reel, page, 0)).more = (page < Len(Hits(place)))
<1> DEFINE query == SearchFor(reel, page, 0)
           offset == (page - 1) * 1
           last == Min({offset + 1, Len(Hits(place))})
           rows == SubSeq(Hits(place), offset + 1, last)
           items == [k \in DOMAIN rows |-> Item(rows[k])]
<1>1. query.size = 0 /\ query.page = page
  BY DEF SearchFor
<1>2. 0 # None
  <2>1. 0 \in Int /\ None \notin Int
    BY NoneAssumption
  <2> QED
    BY <2>1
<1>3. page # None
  BY NoneAssumption
<1>4. Asked(query) = query
  BY <1>1, <1>2, Zenon DEF Asked
<1>5. PageSize(0) = 1
  <2>1. MaxPageSize \in Nat
    BY ContentAssumption DEF ContentAssumption
  <2>2. 0 \in Int /\ 1 \in Int /\ MaxPageSize \in Int
    BY <2>1
  <2>3. Min({0, MaxPageSize}) = IF 0 <= MaxPageSize THEN 0 ELSE MaxPageSize
    BY <2>2, OfTwo, Zenon
  <2>4. Min({0, MaxPageSize}) = 0
    BY <2>1, <2>3
  <2>5. Max({1, 0}) = IF 1 >= 0 THEN 1 ELSE 0
    BY <2>2, OfTwo, Zenon
  <2>6. Max({1, 0}) = 1
    BY <2>5
  <2> QED
    BY <1>2, <2>4, <2>6, Zenon DEF PageSize
<1>6. PageNumber(page) = page
  <2>1. 1 \in Int /\ page \in Int
    OBVIOUS
  <2>2. Max({1, page}) = IF 1 >= page THEN 1 ELSE page
    BY <2>1, OfTwo, Zenon
  <2>3. Max({1, page}) = page
    BY <2>2
  <2> QED
    BY <1>3, <2>3, Zenon DEF PageNumber
<1>7. Page(RowsAt(place), query) =
        [items |-> Recent(Hits(place), 1, (page - 1) * 1), count |-> Len(Hits(place)),
                     more |-> page * 1 < Len(Hits(place))]
  <2>1. Matching(RowsAt(place), query) = Hits(place)
    BY SameHits
  <2> HIDE DEF query
  <2> QED
    BY <1>1, <1>5, <1>6, <2>1, Zenon DEF Page
<1>8. ListReels(RowsAt(place), query) = Page(RowsAt(place), query)
  BY <1>4, SearchAccepted, Zenon DEF ListReels
<1>9. Recent(Hits(place), 1, (page - 1) * 1) = items
  BY Zenon DEF Recent
<1>10. Hits(place) \in Seq(Range(RowsAt(place))) /\ Len(Hits(place)) \in Nat
  BY ReelIsHit
<1>11. offset + 1 = page /\ page * 1 = page
  OBVIOUS
<1> HIDE DEF query, offset
<1>12. last = IF page <= Len(Hits(place)) THEN page ELSE Len(Hits(place))
  <2>1. page \in Int /\ Len(Hits(place)) \in Int
    BY <1>10
  <2> QED
    BY <1>11, <2>1, OfTwo, Zenon
<1> HIDE DEF last
<1>13. /\ rows \in Seq(Range(RowsAt(place)))
       /\ Len(rows) = IF page <= Len(Hits(place)) THEN 1 ELSE 0
       /\ page <= Len(Hits(place)) => rows[1] = Hits(place)[page]
  <2> DEFINE hits == Hits(place)
             S == Range(RowsAt(place))
  <2>1. hits \in Seq(S) /\ Len(hits) \in Nat
    BY <1>10
  <2>2. rows = SubSeq(hits, page, IF page <= Len(hits) THEN page ELSE Len(hits))
    BY <1>11, <1>12, Zenon
  <2> HIDE DEF hits, S, rows
  <2>3. CASE page <= Len(hits)
    <3>1. rows = SubSeq(hits, page, page)
      BY <2>2, <2>3
    <3>2. \A i \in page..page : hits[i] \in S
      BY <2>1, <2>3
    <3>3. /\ SubSeq(hits, page, page) \in Seq(S)
          /\ Len(SubSeq(hits, page, page)) = IF page <= page THEN page - page + 1 ELSE 0
          /\ \A i \in 1..(page - page + 1) :
               SubSeq(hits, page, page)[i] = hits[page + i - 1]
      <4>1. page \in Int
        OBVIOUS
      <4> QED
        BY <3>2, <4>1, SubSeqProperties
    <3>4. page - page + 1 = 1 /\ page + 1 - 1 = page
      OBVIOUS
    <3>5. rows \in Seq(S) /\ Len(rows) = 1 /\ rows[1] = hits[page]
      BY <3>1, <3>3, <3>4
    <3> QED
      BY <2>3, <3>5 DEF hits, S
  <2>4. CASE ~(page <= Len(hits))
    <3>1. rows = SubSeq(hits, page, Len(hits)) /\ Len(hits) < page
      BY <2>1, <2>2, <2>4
    <3>2. rows = <<>>
      BY <2>1, <3>1, SubSeqEmpty
    <3> QED
      BY <2>4, <3>2 DEF hits, S
  <2> QED
    BY <2>3, <2>4
<1> HIDE DEF rows
<1>14. /\ items \in Seq(ItemsAt(place)) /\ Len(items) = Len(rows)
       /\ 1 \in DOMAIN rows => items[1] = Item(rows[1])
  <2>1. DOMAIN rows = 1..Len(rows) /\ Len(rows) \in Nat
    <3> DEFINE S == Range(RowsAt(place))
    <3>1. rows \in Seq(S)
      BY <1>13
    <3> HIDE DEF S
    <3> QED
      BY <3>1, LenProperties
  <2>2. \A k \in 1..Len(rows) : Item(rows[k]) \in ItemsAt(place)
    BY <1>13 DEF ItemsAt
  <2> QED
    BY <2>1, <2>2
<1> HIDE DEF items
<1>15. /\ ListReels(RowsAt(place), query).items = items
       /\ ListReels(RowsAt(place), query).more = (page < Len(Hits(place)))
  BY <1>7, <1>8, <1>9, <1>11
<1>16. page <= Len(Hits(place)) => 1 \in DOMAIN rows
  BY <1>13
<1> QED
  BY <1>13, <1>14, <1>15, <1>16 DEF query

\* A large page announces how many rows there are.
LEMMA LargePage ==
  ASSUME reel \in ReelRows, NEW place \in Places
  PROVE  ListReels(RowsAt(place), SearchFor(reel, None, None)).count = Len(Hits(place))
<1> DEFINE query == Asked(SearchFor(reel, None, None))
<1>1. query = SearchFor(reel, None, MaxPageSize + 1)
  BY DEF Asked, SearchFor
<1>2. Matching(RowsAt(place), query) = Hits(place)
  BY <1>1, SameHits
<1>3. ListReels(RowsAt(place), SearchFor(reel, None, None)) = Page(RowsAt(place), query)
  BY SearchAccepted, Zenon DEF ListReels
<1> HIDE DEF query
<1>4. Page(RowsAt(place), query).count = Len(Matching(RowsAt(place), query))
  BY DEF Page
<1> QED
  BY <1>2, <1>3, <1>4

-----------------------------------------------------------------------------
(* The state. *)

\* The bounds are numbers.
LEMMA SettingsBounds ==
  MaxJobs \in Nat /\ MaxRequests \in Nat /\ MaxChanges \in Nat /\ MaxTries \in Nat \ {0}
  BY ContentAssumption DEF ContentAssumption

\* Listings are numbered from 1.
LEMMA ListingNumbers ==
  Len(Listings) \in Nat /\ DOMAIN Listings = 1..Len(Listings)
<1>1. Listings \in Seq(Range(Listings))
  BY ContentAssumption DEF ContentAssumption
<1> QED
  BY <1>1, LenProperties

\* What the later stages of a job rely on: the record is of the listing and has
\* the plan of the job under way, a template came with them, and the files are
\* those of that listing.
Carried ==
  run # None =>
    /\ run.step # "taken" =>
         /\ reel # None /\ reel.listing = run.job.listing /\ reel.targets = run.targets
         /\ run.template \in Kept("template")
    /\ run.step \in {"rendered", "stored", "failed"} => media.listing = run.job.listing
    /\ run.step = "rendered" => media.auto \in Snapshots

\* The newest listing is with whoever is to bring it to the record: the jobs that
\* wait, else the job under way, else the record has it.
Caught ==
  ~behind =>
    /\ \A job \in queue : job.listing = newest
    /\ queue = {} /\ run # None => run.job.listing = newest
    /\ queue = {} /\ run = None /\ reel # None => reel.listing = newest

\* The video on disk shows the row.
MediaShows ==
  LET l == Listings[reel.listing]
      photos == SlidesShown(Ordered(l, reel.photos, reel.slides), l.featured, media.template)
  IN /\ media.listing = reel.listing
     /\ media.photos = photos
     /\ media.cues = CuesDrawn(l, photos, media.template, reel.subtitles,
                               media.drawn, media.intro)

\* Its snapshot is that of the row, made when the files were.
SnapshotMade ==
  LET l == Listings[reel.listing]
  IN /\ media.files = Ordered(l, reel.photos, reel.slides)
     /\ media.intro \in Nat
     /\ \E t \in Kept("template") :
          /\ media.template = ProfileTemplate(l, t)
          /\ media.auto = Snapshot(l, reel.photos, reel.slides, t, reel.subtitles)

\* The row has the snapshot, if there was something to keep.
SnapshotStored == media.auto = <<>> \/ reel.auto = media.auto

\* When no job waits, what the row asks for is in the video, or with the job that
\* is about to make it.
Shown ==
  ~stale /\ queue = {} =>
    /\ run = None /\ reel # None /\ reel.rs = "completed" =>
         MediaShows /\ SnapshotMade /\ SnapshotStored
    /\ run # None /\ run.step = "ingested" =>
         /\ run.photos = reel.photos
         /\ run.subtitles = reel.subtitles
         /\ run.slides = reel.slides
    /\ run # None /\ run.step \in {"rendered", "stored", "failed"} =>
         MediaShows /\ SnapshotMade
    /\ run # None /\ run.step \in {"stored", "failed"} => SnapshotStored

\* What a reel on record as published was posted with: the plan's words, whatever
\* the editor wrote.  An edit of the captions leaves it, PostedOnRecord does not show
\* as much: which platforms it speaks of depends on the captions.
PostedAsPlanned ==
  reel # None /\ reel.ws = "published" =>
    \A p \in DOMAIN reel.targets :
      /\ p \in DOMAIN feed
      /\ feed[p].text = reel.targets[p].text
      /\ feed[p].media = reel.listing

\* The inductive invariant.
ContentInv ==
  /\ TypeOK
  /\ IsFiniteSet(queue)
  /\ Carried
  /\ Caught
  /\ Shown
  /\ AtMostOneCaption
  /\ PostedAsPlanned

\* What every request of the editor amounts to.
SameVideo ==
  /\ reel'.rs = reel.rs /\ reel'.photos = reel.photos
  /\ reel'.subtitles = reel.subtitles /\ reel'.slides = reel.slides
  /\ reel'.auto = reel.auto

JobAsked ==
  /\ jobs < MaxJobs /\ jobs' = jobs + 1
  /\ queue' = {Job(reel.listing, StoredContext(agency, reel'.music))}
  /\ behind' = (behind \/ Newer(reel.listing))
  /\ stale' = stale

NoneAsked ==
  /\ queue' = queue /\ jobs' = jobs /\ behind' = behind
  /\ stale' = TRUE \/ (stale' = stale /\ SameVideo)

EditorStep ==
  /\ reel # None /\ reel' \in ReelRows
  /\ reel'.listing = reel.listing /\ reel'.targets = reel.targets
  /\ reel'.ws = "published" => reel.ws = "published"
  /\ agency' = agency /\ newest' = newest /\ run' = run /\ media' = media
  /\ feed' = feed /\ changes' = changes
  /\ requests' = requests \/ (requests < MaxRequests /\ requests' = requests + 1)
  /\ JobAsked \/ NoneAsked

\* A request that saves a row changes nothing else of the reel.
LEMMA Saved ==
  ASSUME TypeOK, NEW row, row \in ReelRows, row.listing = reel.listing,
         row.targets = reel.targets, row.ws = "published" => reel.ws = "published",
         Change, Save(row)
  PROVE  /\ reel' = row /\ reel # None /\ reel' \in ReelRows
         /\ reel'.listing = reel.listing /\ reel'.targets = reel.targets
         /\ reel'.ws = "published" => reel.ws = "published"
         /\ agency' = agency /\ newest' = newest /\ run' = run /\ media' = media
         /\ feed' = feed /\ changes' = changes
         /\ requests < MaxRequests /\ requests' = requests + 1
  BY DEF Change, Request, Save

\* A row that was saved goes with a job, or is marked as without one.
LEMMA SavedWithJob ==
  ASSUME reel'.listing = reel.listing, EditJob(reel')
  PROVE  JobAsked \/ NoneAsked
  BY DEF EditJob, RenderJob, Enqueue, NoJob, JobAsked, NoneAsked

\* The fields of a row.
LEMMA RowFields ==
  ASSUME TypeOK, reel # None
  PROVE  /\ reel \in ReelRows
         /\ reel = [listing |-> reel.listing, ws |-> reel.ws, ps |-> reel.ps, rs |-> reel.rs,
                    captions |-> reel.captions, music |-> reel.music,
                    photos |-> reel.photos, subtitles |-> reel.subtitles,
                    slides |-> reel.slides, auto |-> reel.auto, targets |-> reel.targets]
         /\ reel.listing \in DOMAIN Listings /\ reel.listing <= newest
  BY DEF TypeOK, ReelRows

\* What an edit leaves is among what a row may hold.
LEMMA EditedFields ==
  /\ None \in Orders /\ None \in CueLists /\ None \in SlideLists /\ None \in Snapshots
  /\ \A order \in PhotosInputs : NormalPhotos(order) \in Orders
  /\ \A cues \in CueInputs : ValidCues(NormalCues(cues)) => NormalCues(cues) \in CueLists
  /\ \A slides \in SlideInputs : NormalSlides(slides) \in SlideLists
<1>1. ValidCues(None)
  BY DEF ValidCues
<1> QED
  BY <1>1 DEF Orders, CueLists, SlideLists, Snapshots

\* Each of the requests is such a step.
LEMMA EditorSteps ==
  ASSUME TypeOK, Editor
  PROVE  EditorStep
<1>0. reel # None
  BY DEF Editor, EditCaptions, EditMusic, EditPhotos, EditSubtitles, EditSlides, Approve,
         Regenerate, Reject, Change, Request
<1>r. reel \in ReelRows
  BY <1>0, RowFields
<1>1. ASSUME NEW captions \in CaptionInputs, EditCaptions(captions)
      PROVE  EditorStep
  <2> DEFINE row == CaptionsEdited(captions)
  <2>1. row \in ReelRows /\ row.listing = reel.listing /\ row.targets = reel.targets
        /\ row.ws = reel.ws
    BY <1>r, EditedFields DEF CaptionsEdited, ReelRows
  <2>2. Change /\ Save(row) /\ NoJob /\ stale' = TRUE
    BY <1>1 DEF EditCaptions
  <2> HIDE DEF row
  <2> QED
    BY <2>1, <2>2, Saved DEF EditorStep, NoneAsked, NoJob
<1>2. ASSUME NEW music \in MusicInputs, EditMusic(music)
      PROVE  EditorStep
  <2> DEFINE row == MusicEdited(music)
  <2>1. row \in ReelRows /\ row.listing = reel.listing /\ row.targets = reel.targets
        /\ row.ws = reel.ws
    BY <1>r, EditedFields DEF MusicEdited, ReelRows
  <2>2. Change /\ Save(row) /\ EditJob(reel')
    BY <1>2 DEF EditMusic, MusicJob
  <2> HIDE DEF row
  <2> QED
    BY <2>1, <2>2, Saved, SavedWithJob DEF EditorStep
<1>3. ASSUME NEW order \in PhotosInputs, EditPhotos(order)
      PROVE  EditorStep
  <2> DEFINE row == PhotosEdited(order)
  <2>1. row \in ReelRows /\ row.listing = reel.listing /\ row.targets = reel.targets
        /\ row.ws = reel.ws
    BY <1>r, EditedFields DEF PhotosEdited, ReelRows
  <2>2. Change /\ Save(row) /\ EditJob(reel')
    BY <1>3 DEF EditPhotos, PhotosJob
  <2> HIDE DEF row
  <2> QED
    BY <2>1, <2>2, Saved, SavedWithJob DEF EditorStep
<1>4. ASSUME NEW cues \in CueInputs, EditSubtitles(cues)
      PROVE  EditorStep
  <2> DEFINE row == SubtitlesEdited(cues)
  <2>0. NormalCues(cues) \in CueLists
    BY <1>4, EditedFields DEF EditSubtitles
  <2>1. row \in ReelRows /\ row.listing = reel.listing /\ row.targets = reel.targets
        /\ row.ws = reel.ws
    BY <1>r, <2>0, EditedFields DEF SubtitlesEdited, ReelRows
  <2>2. Change /\ Save(row) /\ EditJob(reel')
    BY <1>4 DEF EditSubtitles, SubtitlesJob
  <2> HIDE DEF row
  <2> QED
    BY <2>1, <2>2, Saved, SavedWithJob DEF EditorStep
<1>5. ASSUME NEW slides \in SlideInputs, EditSlides(slides)
      PROVE  EditorStep
  <2> DEFINE row == SlidesEdited(slides)
  <2>1. row \in ReelRows /\ row.listing = reel.listing /\ row.targets = reel.targets
        /\ row.ws = reel.ws
    BY <1>r, EditedFields DEF SlidesEdited, ReelRows
  <2>2. Change /\ Save(row) /\ EditJob(reel')
    BY <1>5 DEF EditSlides, SlidesJob
  <2> HIDE DEF row
  <2> QED
    BY <2>1, <2>2, Saved, SavedWithJob DEF EditorStep
<1>6. ASSUME Approve
      PROVE  EditorStep
  <2> DEFINE row == [reel EXCEPT !.ws = "approved", !.ps = "pending_publish"]
  <2>1. /\ row \in ReelRows /\ row.listing = reel.listing /\ row.targets = reel.targets
        /\ row.ws = "approved" /\ row.music = reel.music
        /\ row.rs = reel.rs /\ row.photos = reel.photos
        /\ row.subtitles = reel.subtitles /\ row.slides = reel.slides
        /\ row.auto = reel.auto
    BY <1>r DEF ReelRows, States, Statuses
  <2>2. Change /\ Save(row) /\ stale' = stale
    BY <1>6 DEF Approve
  <2>3. RenderJob(reel) \/ NoJob
    BY <1>6 DEF Approve
  <2> HIDE DEF row
  <2>4. JobAsked \/ NoneAsked
    BY <2>1, <2>2, <2>3 DEF RenderJob, Enqueue, NoJob, JobAsked, NoneAsked, SameVideo, Save
  <2> QED
    BY <2>1, <2>2, <2>4, Saved DEF EditorStep
<1>7. ASSUME Regenerate
      PROVE  EditorStep
  BY <1>7, <1>0, <1>r DEF Regenerate, Request, RenderJob, Enqueue, EditorStep, JobAsked
<1>8. ASSUME Reject
      PROVE  EditorStep
  <2> DEFINE row == [reel EXCEPT !.ws = "rejected", !.ps = "rejected"]
  <2>1. /\ row \in ReelRows /\ row.listing = reel.listing /\ row.targets = reel.targets
        /\ row.ws = "rejected"
        /\ row.rs = reel.rs /\ row.photos = reel.photos
        /\ row.subtitles = reel.subtitles /\ row.slides = reel.slides
        /\ row.auto = reel.auto
    BY <1>r DEF ReelRows, States, Statuses
  <2>2. Change /\ Save(row) /\ stale' = stale /\ NoJob
    BY <1>8 DEF Reject
  <2> HIDE DEF row
  <2>4. NoneAsked
    BY <2>1, <2>2 DEF NoJob, NoneAsked, SameVideo, Save
  <2> QED
    BY <2>1, <2>2, <2>4, Saved DEF EditorStep
<1> QED
  BY <1>1, <1>2, <1>3, <1>4, <1>5, <1>6, <1>7, <1>8 DEF Editor

\* The fields of a job under way.
LEMMA RunFields ==
  ASSUME TypeOK, run # None
  PROVE  /\ run \in Runs
         /\ run.step \in {"taken", "ingested", "rendered", "stored", "failed"}
         /\ run.job \in Jobs /\ run.job.listing \in DOMAIN Listings
         /\ run.job.context \in Contexts /\ run.job.tries \in 0..(MaxTries - 1)
         /\ run.targets \in TargetPlans
         /\ run.job.listing <= newest
<1>1. run \in Runs
  BY DEF TypeOK
<1>2. run.job \in UnderWay
  BY DEF UnderWay
<1>3. run.job.listing <= newest
  BY <1>2 DEF TypeOK
<1>4. run.job \in Jobs
  BY <1>1 DEF Runs
<1> QED
  BY <1>1, <1>3, <1>4 DEF Runs, Jobs

\* The jobs of deliveries and of requests are jobs.
LEMMA NewJobs ==
  /\ \A i \in DOMAIN Listings, c \in Contexts :
       /\ Job(i, c) \in Jobs /\ Job(i, c).listing = i
  /\ \A a \in Agencies : DeliveryContext(a) \in Contexts
  /\ \A a \in Agencies, m \in MusicInputs \cup {None} : StoredContext(a, m) \in Contexts
<1>1. 0 \in 0..(MaxTries - 1)
  BY SettingsBounds
<1>2. ASSUME NEW i \in DOMAIN Listings, NEW c \in Contexts
      PROVE  Job(i, c) \in Jobs /\ Job(i, c).listing = i
  BY <1>1 DEF Job, Jobs
<1>3. ASSUME NEW a \in Agencies
      PROVE  DeliveryContext(a) \in Contexts
  BY DEF Contexts
<1>4. ASSUME NEW a \in Agencies, NEW m \in MusicInputs \cup {None}
      PROVE  StoredContext(a, m) \in Contexts
  BY DEF Contexts
<1> QED
  BY <1>2, <1>3, <1>4

\* A queue of one job.
LEMMA OneJob ==
  ASSUME NEW job
  PROVE  IsFiniteSet({job}) /\ Cardinality({job}) = 1
  BY FS_Singleton

\* The initial state.
LEMMA InitInv == Init => ContentInv
<1> SUFFICES ASSUME Init PROVE ContentInv
  OBVIOUS
<1>1. IsFiniteSet({}) /\ Cardinality({}) = 0
  BY FS_EmptySet
<1>2. TypeOK
  <2>1. Cardinality(queue) + (IF run = None THEN 0 ELSE 1) <= 2
    BY <1>1, 0 + 0 <= 2 DEF Init
  <2>2. UnderWay = {}
    BY DEF Init, UnderWay
  <2>3. newest \in 0..Len(Listings) /\ jobs \in 0..MaxJobs
        /\ requests \in 0..MaxRequests /\ changes \in 0..MaxChanges
    BY SettingsBounds, ListingNumbers DEF Init
  <2> QED
    BY <2>1, <2>2, <2>3 DEF Init, TypeOK
<1> QED
  BY <1>1, <1>2 DEF Init, ContentInv, Carried, Caught, Shown, PostedAsPlanned, AtMostOneCaption

\* What the video shows depends on nothing else.
LEMMA SameShown ==
  ASSUME media' = media, reel'.listing = reel.listing, reel'.photos = reel.photos,
         reel'.subtitles = reel.subtitles, reel'.slides = reel.slides
  PROVE  /\ MediaShows' <=> MediaShows
         /\ SnapshotMade' <=> SnapshotMade
         /\ reel'.auto = reel.auto => (SnapshotStored' <=> SnapshotStored)
  BY DEF MediaShows, SnapshotMade, SnapshotStored

\* A delivery: the new job has the newest listing, and stands alone.
LEMMA DeliverKeeps ==
  ASSUME ContentInv, Deliver
  PROVE  ContentInv'
<1> DEFINE job == Job(newest + 1, DeliveryContext(agency))
<1>1. /\ newest < Len(Listings) /\ newest' = newest + 1
      /\ jobs < MaxJobs /\ jobs' = jobs + 1 /\ queue' = {job} /\ behind' = FALSE
      /\ agency' = agency /\ reel' = reel /\ run' = run /\ media' = media
      /\ feed' = feed /\ requests' = requests /\ changes' = changes /\ stale' = stale
  BY DEF Deliver, Enqueue
<1>2. TypeOK
  BY DEF ContentInv
<1>3. newest + 1 \in DOMAIN Listings
  BY <1>1, <1>2, ListingNumbers DEF TypeOK
<1>4. job \in Jobs /\ job.listing = newest + 1
  BY <1>2, <1>3, NewJobs DEF TypeOK
<1> HIDE DEF job
<1>5. TypeOK'
  <2>1. reel' # None => reel' \in ReelRows /\ reel'.listing <= newest'
    BY <1>1, <1>2, RowFields, ListingNumbers DEF TypeOK
  <2>2. Cardinality(queue') + (IF run' = None THEN 0 ELSE 1) <= 2
    BY <1>1, OneJob, 1 + 0 <= 2, 1 + 1 <= 2
  <2>3. ASSUME NEW j \in UnderWay'
        PROVE  j.listing <= newest'
    BY <1>1, <1>2, <1>4, ListingNumbers, RunFields DEF UnderWay, TypeOK
  <2>4. newest' \in 0..Len(Listings) /\ jobs' \in 0..MaxJobs
    BY <1>1, <1>2, ListingNumbers, SettingsBounds DEF TypeOK
  <2> QED
    BY <1>1, <1>2, <1>4, <2>1, <2>2, <2>3, <2>4 DEF TypeOK
<1>6. IsFiniteSet(queue)'
  BY <1>1, OneJob
<1>7. Carried'
  BY <1>1 DEF ContentInv, Carried
<1>8. Caught'
  BY <1>1, <1>4 DEF Caught
<1>9. Shown'
  BY <1>1 DEF Shown
<1>10. PostedAsPlanned'
  BY <1>1 DEF ContentInv, PostedAsPlanned
<1>c. AtMostOneCaption'
  BY <1>1 DEF ContentInv, AtMostOneCaption
<1> QED
  BY <1>c, <1>5, <1>6, <1>7, <1>8, <1>9, <1>10 DEF ContentInv

\* A request: its job has the listing on record, which is the newest when no job has a
\* newer one.
LEMMA EditorKeeps ==
  ASSUME ContentInv, EditorStep
  PROVE  ContentInv'
<1> DEFINE job == Job(reel.listing, StoredContext(agency, reel'.music))
<1>1. /\ reel # None /\ reel' \in ReelRows
      /\ reel'.listing = reel.listing /\ reel'.targets = reel.targets
      /\ reel'.ws = "published" => reel.ws = "published"
      /\ agency' = agency /\ newest' = newest /\ run' = run /\ media' = media
      /\ feed' = feed /\ changes' = changes
      /\ requests' = requests \/ (requests < MaxRequests /\ requests' = requests + 1)
  BY DEF EditorStep
<1>2. TypeOK
  BY DEF ContentInv
<1>3. reel' # None
  BY <1>1, NoneAssumption
<1>4. reel.listing \in DOMAIN Listings /\ reel.listing <= newest /\ reel.listing \in Nat
  BY <1>1, <1>2, RowFields, ListingNumbers
<1>5. job \in Jobs /\ job.listing = reel.listing
  BY <1>1, <1>2, <1>4, NewJobs DEF TypeOK, ReelRows
<1> HIDE DEF job
<1>6. JobAsked \/ NoneAsked
  BY DEF EditorStep
<1>7. JobAsked => /\ jobs < MaxJobs /\ jobs' = jobs + 1 /\ queue' = {job}
                  /\ behind' = (behind \/ Newer(reel.listing)) /\ stale' = stale
  BY DEF JobAsked, job
<1>8. NoneAsked => /\ queue' = queue /\ jobs' = jobs /\ behind' = behind
                   /\ stale' = TRUE \/ (stale' = stale /\ SameVideo)
  BY DEF NoneAsked
<1>9. TypeOK'
  <2>1. queue' \subseteq Jobs
    BY <1>2, <1>5, <1>6, <1>7, <1>8 DEF TypeOK
  <2>2. Cardinality(queue') + (IF run' = None THEN 0 ELSE 1) <= 2
    <3>1. CASE JobAsked
      BY <1>7, <3>1, OneJob, 1 + 0 <= 2, 1 + 1 <= 2
    <3>2. CASE NoneAsked
      BY <1>1, <1>2, <1>8, <3>2 DEF TypeOK
    <3> QED
      BY <1>6, <3>1, <3>2
  <2>3. ASSUME NEW j \in UnderWay'
        PROVE  j.listing <= newest'
    BY <1>1, <1>2, <1>4, <1>5, <1>6, <1>7, <1>8 DEF UnderWay, TypeOK
  <2>4. jobs' \in 0..MaxJobs /\ requests' \in 0..MaxRequests
    BY <1>1, <1>2, <1>6, <1>7, <1>8, SettingsBounds DEF TypeOK
  <2>5. stale' \in BOOLEAN /\ behind' \in BOOLEAN
    BY <1>2, <1>6, <1>7, <1>8 DEF TypeOK
  <2> QED
    BY <1>1, <1>2, <1>4, <2>1, <2>2, <2>3, <2>4, <2>5 DEF TypeOK
<1>10. IsFiniteSet(queue)'
  BY <1>6, <1>7, <1>8, OneJob DEF ContentInv
<1>11. Carried'
  BY <1>1, <1>3 DEF ContentInv, Carried
<1>12. Caught'
  <2>1. CASE JobAsked
    <3> SUFFICES ASSUME ~behind, ~Newer(reel.listing)
                 PROVE  reel.listing = newest
      BY <1>1, <1>5, <1>7, <2>1 DEF Caught
    <3>1. \A j \in UnderWay : ~(j.listing > reel.listing)
      BY DEF Newer
    <3>2. newest \in Nat
      BY <1>2, ListingNumbers DEF TypeOK
    <3>3. CASE queue # {}
      <4>1. PICK j \in queue : TRUE
        BY <3>3
      <4>2. j.listing = newest
        BY <4>1 DEF ContentInv, Caught
      <4> QED
        BY <1>4, <3>1, <3>2, <4>1, <4>2 DEF UnderWay
    <3>4. CASE queue = {} /\ run # None
      <4>1. run.job.listing = newest
        BY <3>4 DEF ContentInv, Caught
      <4> QED
        BY <1>4, <3>1, <3>2, <3>4, <4>1 DEF UnderWay
    <3>5. CASE queue = {} /\ run = None
      BY <1>1, <3>5 DEF ContentInv, Caught
    <3> QED
      BY <3>3, <3>4, <3>5
  <2>2. CASE NoneAsked
    BY <1>1, <1>8, <2>2 DEF ContentInv, Caught
  <2> QED
    BY <1>6, <2>1, <2>2
<1>13. Shown'
  <2>1. CASE JobAsked
    BY <1>7, <2>1 DEF Shown
  <2>2. CASE NoneAsked
    <3>1. CASE stale' = TRUE
      BY <3>1 DEF Shown
    <3>2. CASE stale' = stale /\ SameVideo
      <4>1. /\ MediaShows' <=> MediaShows
            /\ SnapshotMade' <=> SnapshotMade
            /\ SnapshotStored' <=> SnapshotStored
        BY <1>1, <3>2, SameShown DEF SameVideo
      <4> QED
        BY <1>1, <1>3, <1>8, <2>2, <3>2, <4>1 DEF ContentInv, Shown, SameVideo
    <3> QED
      BY <1>8, <2>2, <3>1, <3>2
  <2> QED
    BY <1>6, <2>1, <2>2
<1>14. PostedAsPlanned'
  BY <1>1 DEF ContentInv, PostedAsPlanned
<1>c. AtMostOneCaption'
  BY <1>1 DEF ContentInv, AtMostOneCaption
<1> QED
  BY <1>c, <1>9, <1>10, <1>11, <1>12, <1>13, <1>14 DEF ContentInv

\* The settings change nothing of the reel.
LEMMA ChangeSettingsKeeps ==
  ASSUME ContentInv, NEW settings \in Agencies, ChangeSettings(settings)
  PROVE  ContentInv'
<1>1. /\ changes < MaxChanges /\ changes' = changes + 1 /\ agency' = settings
      /\ newest' = newest /\ reel' = reel /\ queue' = queue /\ run' = run
      /\ media' = media /\ feed' = feed /\ jobs' = jobs /\ requests' = requests
      /\ stale' = stale /\ behind' = behind
  BY DEF ChangeSettings
<1>2. TypeOK'
  BY <1>1, SettingsBounds DEF ContentInv, TypeOK, UnderWay
<1>3. Carried'
  BY <1>1 DEF ContentInv, Carried
<1>4. Caught'
  BY <1>1 DEF ContentInv, Caught
<1>5. Shown'
  BY <1>1, SameShown DEF ContentInv, Shown
<1>6. PostedAsPlanned'
  BY <1>1 DEF ContentInv, PostedAsPlanned
<1>c. AtMostOneCaption'
  BY <1>1 DEF ContentInv, AtMostOneCaption
<1> QED
  BY <1>c, <1>1, <1>2, <1>3, <1>4, <1>5, <1>6 DEF ContentInv

\* A job is taken from the queue.
LEMMA TakeKeeps ==
  ASSUME ContentInv, NEW job \in queue, Take(job)
  PROVE  ContentInv'
<1> DEFINE taken == [step |-> "taken", job |-> job, photos |-> None, subtitles |-> None,
             slides |-> None, captions |-> <<>>, targets |-> <<>>,
             music |-> None, template |-> None, drawn |-> FALSE, intro |-> 0]
<1>1. /\ run = None /\ queue' = queue \ {job} /\ run' = taken
      /\ agency' = agency /\ newest' = newest /\ jobs' = jobs /\ requests' = requests
      /\ changes' = changes /\ reel' = reel /\ media' = media /\ feed' = feed
      /\ stale' = stale /\ behind' = behind
  BY DEF Take, Settings
<1>2. job \in Jobs /\ TypeOK /\ IsFiniteSet(queue)
  BY DEF ContentInv, TypeOK
<1>3. taken \in Runs /\ taken.job = job /\ taken.step = "taken"
  <2>1. None \in Orders /\ None \in CueLists /\ None \in SlideLists
    BY EditedFields
  <2>2. <<>> \in CaptionLists /\ <<>> \in TargetPlans /\ None \in Tracks
    BY DEF CaptionLists, TargetPlans, Tracks
  <2> QED
    BY <1>2, <2>1, <2>2 DEF Runs
<1> HIDE DEF taken
<1>4. run' # None
  BY <1>1, <1>3, NoneAssumption
<1>5. TypeOK'
  <2>1. Cardinality(queue') = Cardinality(queue) - 1
    BY <1>1, <1>2, FS_RemoveElement
  <2>2. Cardinality(queue') + (IF run' = None THEN 0 ELSE 1) <= 2
    <3>1. Cardinality(queue) + 0 <= 2
      BY <1>1, <1>2 DEF TypeOK
    <3>2. Cardinality(queue) \in Nat
      BY <1>2, FS_CardinalityType
    <3>3. (IF run' = None THEN 0 ELSE 1) = 1
      BY <1>4
    <3> QED
      BY <2>1, <3>1, <3>2, <3>3
  <2>3. UnderWay' \subseteq UnderWay
    BY <1>1, <1>3, <1>4 DEF UnderWay
  <2>4. queue' \subseteq Jobs
    BY <1>1, <1>2 DEF TypeOK
  <2>5. \A j \in UnderWay' : j.listing <= newest'
    BY <1>1, <1>2, <2>3 DEF TypeOK
  <2> QED
    BY <1>1, <1>2, <1>3, <2>2, <2>4, <2>5 DEF TypeOK
<1>6. IsFiniteSet(queue)'
  BY <1>1, <1>2, FS_RemoveElement
<1>7. Carried'
  BY <1>1, <1>3 DEF Carried
<1>8. Caught'
  BY <1>1, <1>3, <1>4 DEF ContentInv, Caught
<1>9. Shown'
  BY <1>1, <1>3, <1>4 DEF Shown
<1>10. PostedAsPlanned'
  BY <1>1 DEF ContentInv, PostedAsPlanned
<1>c. AtMostOneCaption'
  BY <1>1 DEF ContentInv, AtMostOneCaption
<1> QED
  BY <1>c, <1>5, <1>6, <1>7, <1>8, <1>9, <1>10 DEF ContentInv

\* The queue and the counts while a job is under way.
LEMMA StageType ==
  ASSUME TypeOK, IsFiniteSet(queue), run # None,
         agency' = agency, newest' = newest, jobs' = jobs, requests' = requests,
         changes' = changes, queue' = queue, behind' = behind, stale' \in BOOLEAN,
         reel' \in ReelRows, reel'.listing <= newest,
         run' = None \/ (run' \in Runs /\ run'.job = run.job)
  PROVE  TypeOK' /\ IsFiniteSet(queue)'
<1>1. Cardinality(queue') + (IF run' = None THEN 0 ELSE 1) <= 2
  <2>1. Cardinality(queue) + 1 <= 2
    BY DEF TypeOK
  <2>2. Cardinality(queue) \in Nat
    BY FS_CardinalityType
  <2> QED
    BY <2>1, <2>2
<1>2. UnderWay' \subseteq UnderWay
  BY DEF UnderWay
<1>3. \A j \in UnderWay' : j.listing <= newest'
  BY <1>2 DEF TypeOK
<1> QED
  BY <1>1, <1>3 DEF TypeOK

\* A step of a job that is under way leaves the newest listing where it is.
LEMMA StageCaught ==
  ASSUME Caught, run # None, newest' = newest, queue' = queue, behind' = behind,
         \/ run' # None /\ run'.job = run.job
         \/ run' = None /\ reel'.listing = run.job.listing
  PROVE  Caught'
  BY DEF Caught

\* The record takes the listing of the job, and the job the overrides of the row.
LEMMA IngestKeeps ==
  ASSUME ContentInv, Ingest
  PROVE  ContentInv'
<1> DEFINE row == IF reel = None THEN NewRow ELSE reel
           targets == Plans[run.job.context][run.job.listing]
           record == [Upserted(row, run.job.listing) EXCEPT
                        !.ws = "ingested", !.ps = "pending", !.rs = "pending",
                        !.targets = targets]
           music == MusicFor(run.job.context.music)
           captions == Captions(targets, Optional(row.captions, <<>>))
           next == [run EXCEPT
                      !.step = "ingested", !.photos = row.photos,
                      !.subtitles = row.subtitles, !.slides = row.slides,
                      !.captions = captions, !.targets = targets, !.music = music,
                      !.template = agency.template, !.drawn = agency.drawn,
                      !.intro = IntroLength]
<1>1. /\ run # None /\ run.step = "taken" /\ reel' = record /\ run' = next
      /\ stale' = FALSE /\ agency' = agency /\ newest' = newest /\ jobs' = jobs
      /\ requests' = requests /\ changes' = changes /\ queue' = queue
      /\ media' = media /\ feed' = feed /\ behind' = behind
  BY Zenon DEF Ingest, Stage, Settings
<1>2. TypeOK /\ IsFiniteSet(queue) /\ agency \in Agencies
  BY DEF ContentInv, TypeOK
<1>3. /\ run \in Runs /\ run.job.listing \in DOMAIN Listings /\ run.job.listing <= newest
      /\ run.job.context \in Contexts
  BY <1>1, <1>2, RunFields
<1>4. targets \in TargetPlans
  BY <1>3 DEF TargetPlans
<1>5. /\ row.photos \in Orders /\ row.subtitles \in CueLists /\ row.slides \in SlideLists
      /\ row.captions \in CaptionInputs \cup {None} /\ row.music \in MusicInputs \cup {None}
      /\ row.auto \in Snapshots
  BY <1>2, RowFields, EditedFields DEF NewRow, ReelRows
<1>6. /\ row = [listing |-> row.listing, ws |-> row.ws, ps |-> row.ps, rs |-> row.rs,
                captions |-> row.captions, music |-> row.music,
                photos |-> row.photos, subtitles |-> row.subtitles,
                slides |-> row.slides, auto |-> row.auto, targets |-> row.targets]
  BY <1>2, RowFields DEF NewRow
<1> HIDE DEF row, targets
<1>7. /\ record \in ReelRows /\ record.listing = run.job.listing
      /\ record.ws = "ingested" /\ record.rs = "pending" /\ record.targets = targets
      /\ record.photos = row.photos /\ record.subtitles = row.subtitles
      /\ record.slides = row.slides
  BY <1>3, <1>4, <1>5, <1>6 DEF Upserted, ReelRows, States, Statuses
<1>8. captions \in CaptionLists
  <2>1. Optional(row.captions, <<>>) \in Edits
    BY <1>5 DEF Optional, Edits
  <2> QED
    BY <1>4, <2>1 DEF CaptionLists
<1>9. music \in Tracks
  BY <1>2 DEF MusicFor, Tracks, Kept
<1>10. /\ agency.template \in Kept("template") /\ agency.drawn \in Kept("drawn")
       /\ IntroLength \in Kept("intro")
  BY <1>2 DEF Kept, IntroLength
<1> HIDE DEF record, captions, music
<1>11. /\ next \in Runs /\ next.job = run.job /\ next.step = "ingested"
       /\ next.photos = row.photos /\ next.subtitles = row.subtitles
       /\ next.slides = row.slides /\ next.targets = targets
       /\ next.template = agency.template
  BY <1>3, <1>4, <1>5, <1>8, <1>9, <1>10 DEF Runs
<1> HIDE DEF next
<1>12. reel' # None /\ run' # None
  BY <1>1, <1>7, <1>11, NoneAssumption
<1>13. TypeOK' /\ IsFiniteSet(queue)'
  BY <1>1, <1>2, <1>3, <1>7, <1>11, StageType
<1>14. Carried'
  BY <1>1, <1>7, <1>10, <1>11, <1>12 DEF Carried
<1>15. Caught'
  BY <1>1, <1>11, <1>12, StageCaught DEF ContentInv
<1>16. Shown'
  BY <1>1, <1>7, <1>11, <1>12 DEF Shown
<1>17. PostedAsPlanned'
  BY <1>1, <1>7 DEF PostedAsPlanned
<1>c. AtMostOneCaption'
  BY <1>1 DEF ContentInv, AtMostOneCaption
<1> QED
  BY <1>c, <1>13, <1>14, <1>15, <1>16, <1>17 DEF ContentInv

\* The stages after the ingestion.
LEMMA Later ==
  ASSUME ContentInv, run # None, run.step # "taken"
  PROVE  /\ TypeOK /\ IsFiniteSet(queue) /\ Caught
         /\ reel # None /\ reel \in ReelRows /\ reel.listing = run.job.listing
         /\ reel.targets = run.targets /\ run.template \in Kept("template")
         /\ reel.listing <= newest
         /\ run \in Runs /\ run.job.listing \in DOMAIN Listings
  BY RowFields, RunFields DEF ContentInv, Carried

\* What a job under way brings to the render.
LEMMA RunParts ==
  ASSUME run \in Runs, run.template \in Kept("template")
  PROVE  /\ run.photos \in Orders /\ run.slides \in SlideLists
         /\ run.subtitles \in CueLists
         /\ run.template \in Templates /\ run.intro \in Nat
<1>1. /\ run.photos \in Orders /\ run.slides \in SlideLists /\ run.subtitles \in CueLists
      /\ run.intro \in Kept("intro") \cup {0}
  BY DEF Runs
<1>2. \A a \in Agencies : a.template \in Templates /\ a.intro \in Nat
  BY ContentAssumption DEF ContentAssumption, Templates
<1> QED
  BY <1>1, <1>2 DEF Kept

\* The template of a listing.
LEMMA ProfileKeeps ==
  ASSUME NEW l, NEW t \in Templates
  PROVE  /\ ProfileTemplate(l, t) \in Templates /\ ProfileTemplate(l, t).per = t.per
         /\ ProfileTemplate(l, t).max <= t.max
<1> DEFINE one == StatusTemplate(t)
<1>1. t.per \in Nat \ {0} /\ t.max \in Nat \ {0} /\ t.total \in Nat
      /\ t = [per |-> t.per, max |-> t.max, total |-> t.total]
  BY DEF Templates
<1>2. one = [per |-> t.per, max |-> 1, total |-> t.per]
  BY DEF StatusTemplate
<1> HIDE DEF one
<1>3. one \in Templates /\ one.per = t.per /\ one.max <= t.max
  BY <1>1, <1>2 DEF Templates
<1> QED
  BY <1>1, <1>3 DEF ProfileTemplate, one

\* Cues the row may hold are valid, and numbers.
LEMMA CueListsAreCues ==
  ASSUME NEW cues \in CueLists
  PROVE  ValidCues(cues) /\ (cues = None \/ cues \in Seq(Cues))
<1>1. ValidCues(cues) /\ (cues = None \/ cues \in CueInputs)
  BY DEF CueLists, NormalCues
<1>2. CueInputs \subseteq {None} \cup Seq(Cues)
  BY ContentAssumption DEF ContentAssumption, Cues
<1> QED
  BY <1>1, <1>2

\* The photos of a video are of its listing.
LEMMA ShownPhotos ==
  ASSUME NEW i \in DOMAIN Listings, NEW files \in Seq(DOMAIN Listings[i].captions),
         NEW t \in Templates
  PROVE  /\ SlidesShown(files, Listings[i].featured, t) \in Seq(DOMAIN Listings[i].captions)
         /\ Len(SlidesShown(files, Listings[i].featured, t)) <= t.max
<1> DEFINE D == DOMAIN Listings[i].captions
           featured == Listings[i].featured
           rest == Only(files, Range(files) \ {featured})
           all == IF featured = None THEN files ELSE <<featured>> \o rest
           count == Min({t.max, Len(all)})
<1>1. featured \in {None} \cup D
  BY ContentAssumption DEF ContentAssumption
<1>2. SlidesShown(files, featured, t) = SubSeq(all, 1, count)
  BY Zenon DEF SlidesShown
<1>3. rest \in Seq(D)
  <2> HIDE DEF D
  <2>1. files \in Seq(D)
    BY DEF D
  <2> QED
    BY <2>1, OnlyKeeps
<1>4. files \in Seq(D)
  OBVIOUS
<1> HIDE DEF D, featured, rest
<1>5. all \in Seq(D)
  BY <1>1, <1>3, <1>4
<1> HIDE DEF all
<1>6. Len(all) \in Int /\ Len(all) \in Nat /\ t.max \in Int
  BY <1>5 DEF Templates
<1>7. count = IF t.max <= Len(all) THEN t.max ELSE Len(all)
  BY <1>6, OfTwo, Zenon
<1> HIDE DEF count
<1>8. count \in Nat /\ count <= Len(all) /\ count <= t.max
  BY <1>6, <1>7 DEF Templates
<1>9. SubSeq(all, 1, count) \in Seq(D) /\ Len(SubSeq(all, 1, count)) <= t.max
  BY <1>5, <1>6, <1>8
<1> QED
  BY <1>2, <1>9 DEF D, featured

\* The captions of a video are apart.
LEMMA VideoApart ==
  ASSUME run \in Runs, run.template \in Kept("template"), NEW i \in DOMAIN Listings,
         NEW photos, NEW template,
         template = ProfileTemplate(Listings[i], run.template),
         photos = SlidesShown(Ordered(Listings[i], run.photos, run.slides),
                              Listings[i].featured, template)
  PROVE  \A c, d \in CuesDrawn(Listings[i], photos, template, run.subtitles, run.drawn,
                               run.intro) :
           c = d \/ c.out <= d.in \/ d.out <= c.in
<1> DEFINE l == Listings[i]
           captions == CaptionsOf(l, photos)
<1>1. /\ run.photos \in Orders /\ run.slides \in SlideLists /\ run.subtitles \in CueLists
      /\ run.template \in Templates /\ run.intro \in Nat
  BY RunParts
<1>2. template \in Templates
  BY <1>1, ProfileKeeps
<1>3. photos \in Seq(DOMAIN l.captions)
  BY <1>1, <1>2, OrderedPhotos, ShownPhotos
<1>4. Len(captions) = Len(photos) /\ DOMAIN captions = 1..Len(photos)
  BY <1>3, CaptionsAreTexts
<1>5. Len(photos) \in Nat
  BY <1>3
<1>6. ValidCues(run.subtitles) /\ (run.subtitles = None \/ run.subtitles \in Seq(Cues))
  BY <1>1, CueListsAreCues
<1> HIDE DEF captions
<1>7. \A c, d \in DrawnCues(run.subtitles, captions, template, run.intro) :
        c = d \/ c.out <= d.in \/ d.out <= c.in
  BY <1>1, <1>2, <1>4, <1>5, <1>6, DrawnApart
<1> QED
  BY <1>7 DEF CuesDrawn, captions

\* The video is made of what the job took from the row, which the row still asks for
\* unless a job waits or the row was changed without one.
LEMMA RenderKeeps ==
  ASSUME ContentInv, Render
  PROVE  ContentInv'
<1> DEFINE l == Listings[run.job.listing]
           row == [reel EXCEPT !.ws = "assets_prepared"]
           next == [run EXCEPT !.step = "rendered"]
           video == Video(l, run)
<1>1. /\ run # None /\ run.step = "ingested" /\ reel' = row /\ run' = next
      /\ media' = video /\ agency' = agency /\ newest' = newest /\ jobs' = jobs
      /\ requests' = requests /\ changes' = changes /\ queue' = queue
      /\ stale' = stale /\ feed' = feed /\ behind' = behind
  BY Zenon DEF Render, Stage, Settings
<1>2. /\ TypeOK /\ IsFiniteSet(queue) /\ Caught
      /\ reel # None /\ reel \in ReelRows /\ reel.listing = run.job.listing
      /\ reel.targets = run.targets /\ run.template \in Kept("template")
      /\ reel.listing <= newest
      /\ run \in Runs /\ run.job.listing \in DOMAIN Listings
  BY <1>1, Later
<1>3. /\ row \in ReelRows /\ row.listing = reel.listing /\ row.ws = "assets_prepared"
      /\ row.targets = reel.targets /\ row.photos = reel.photos
      /\ row.subtitles = reel.subtitles /\ row.slides = reel.slides
  BY <1>2 DEF ReelRows, States
<1>4. /\ next \in Runs /\ next.job = run.job /\ next.step = "rendered"
      /\ next.targets = run.targets /\ next.template = run.template
  BY <1>2 DEF Runs
<1>5. /\ video.listing = run.job.listing
      /\ video.template = ProfileTemplate(l, run.template)
      /\ video.photos = SlidesShown(Ordered(l, run.photos, run.slides), l.featured,
                                    video.template)
      /\ video.drawn = run.drawn /\ video.intro = run.intro
      /\ video.cues = CuesDrawn(l, video.photos, video.template, run.subtitles,
                                video.drawn, video.intro)
      /\ video.files = Ordered(l, run.photos, run.slides)
      /\ video.auto = Snapshot(l, run.photos, run.slides, run.template, run.subtitles)
  BY DEF Video
<1>6. video.auto \in Snapshots
  <2>1. run.photos \in Orders /\ run.slides \in SlideLists /\ run.subtitles \in CueLists
    BY <1>2 DEF Runs
  <2>2. PICK a \in Agencies : run.template = a.template
    BY <1>2 DEF Kept
  <2> QED
    BY <1>2, <1>5, <2>1, <2>2 DEF Snapshots
<1>d. \A c, d \in video.cues : c = d \/ c.out <= d.in \/ d.out <= c.in
  BY <1>2, <1>5, VideoApart
<1>i. video.intro \in Nat
  BY <1>2, <1>5, RunParts
<1> HIDE DEF row, next, video
<1>7. reel' # None /\ run' # None
  BY <1>1, <1>3, <1>4, NoneAssumption
<1>8. TypeOK' /\ IsFiniteSet(queue)'
  <2>1. stale' \in BOOLEAN
    BY <1>1, <1>2 DEF TypeOK
  <2> QED
    BY <1>1, <1>2, <1>3, <1>4, <2>1, StageType
<1>9. Carried'
  BY <1>1, <1>2, <1>3, <1>4, <1>5, <1>6, <1>7 DEF Carried
<1>10. Caught'
  BY <1>1, <1>2, <1>4, <1>7, StageCaught
<1>11. Shown'
  <2> SUFFICES ASSUME ~stale, queue = {}
               PROVE  MediaShows' /\ SnapshotMade'
    BY <1>1, <1>4, <1>7 DEF Shown
  <2>1. run.photos = reel.photos /\ run.subtitles = reel.subtitles
        /\ run.slides = reel.slides
    BY <1>1 DEF ContentInv, Shown
  <2>2. MediaShows'
    BY <1>1, <1>2, <1>3, <1>5, <2>1 DEF MediaShows, l
  <2>3. SnapshotMade'
    BY <1>1, <1>2, <1>3, <1>5, <1>i, <2>1 DEF SnapshotMade, l
  <2> QED
    BY <2>2, <2>3
<1>12. PostedAsPlanned'
  BY <1>1, <1>3 DEF PostedAsPlanned
<1>13. AtMostOneCaption'
  BY <1>1, <1>d DEF AtMostOneCaption
<1> QED
  BY <1>13, <1>8, <1>9, <1>10, <1>11, <1>12 DEF ContentInv

\* The row takes the snapshot of the video.
LEMMA StoreRowKeeps ==
  ASSUME ContentInv, StoreRow
  PROVE  ContentInv'
<1> DEFINE row == [SnapshotKept(reel, media.auto) EXCEPT !.rs = "completed",
                                                          !.ws = "rendered"]
           next == [run EXCEPT !.step = "stored"]
<1>1. /\ run # None /\ run.step = "rendered" /\ reel' = row /\ run' = next
      /\ media' = media /\ agency' = agency /\ newest' = newest /\ jobs' = jobs
      /\ requests' = requests /\ changes' = changes /\ queue' = queue
      /\ stale' = stale /\ feed' = feed /\ behind' = behind
  BY Zenon DEF StoreRow, Stage, Settings
<1>2. /\ TypeOK /\ IsFiniteSet(queue) /\ Caught
      /\ reel # None /\ reel \in ReelRows /\ reel.listing = run.job.listing
      /\ reel.targets = run.targets /\ run.template \in Kept("template")
      /\ reel.listing <= newest
      /\ run \in Runs /\ run.job.listing \in DOMAIN Listings
  BY <1>1, Later
<1>3. media.auto \in Snapshots /\ media.listing = run.job.listing
  BY <1>1 DEF ContentInv, Carried
<1>4. /\ row \in ReelRows /\ row.listing = reel.listing /\ row.ws = "rendered"
      /\ row.targets = reel.targets /\ row.photos = reel.photos
      /\ row.subtitles = reel.subtitles /\ row.slides = reel.slides
      /\ media.auto = <<>> \/ row.auto = media.auto
  BY <1>2, <1>3 DEF ReelRows, States, SnapshotKept
<1>5. /\ next \in Runs /\ next.job = run.job /\ next.step = "stored"
      /\ next.targets = run.targets /\ next.template = run.template
  BY <1>2 DEF Runs
<1> HIDE DEF row, next
<1>7. reel' # None /\ run' # None
  BY <1>1, <1>4, <1>5, NoneAssumption
<1>8. TypeOK' /\ IsFiniteSet(queue)'
  <2>1. stale' \in BOOLEAN
    BY <1>1, <1>2 DEF TypeOK
  <2> QED
    BY <1>1, <1>2, <1>4, <1>5, <2>1, StageType
<1>9. Carried'
  BY <1>1, <1>2, <1>3, <1>4, <1>5, <1>7 DEF Carried
<1>10. Caught'
  BY <1>1, <1>2, <1>5, <1>7, StageCaught
<1>11. Shown'
  <2>1. /\ MediaShows' <=> MediaShows
        /\ SnapshotMade' <=> SnapshotMade
    BY <1>1, <1>4, SameShown
  <2>2. SnapshotStored'
    BY <1>1, <1>4 DEF SnapshotStored
  <2> QED
    BY <1>1, <1>5, <1>7, <2>1, <2>2 DEF ContentInv, Shown
<1>12. PostedAsPlanned'
  BY <1>1, <1>4 DEF PostedAsPlanned
<1>c. AtMostOneCaption'
  BY <1>1 DEF ContentInv, AtMostOneCaption
<1> QED
  BY <1>c, <1>8, <1>9, <1>10, <1>11, <1>12 DEF ContentInv

\* The job ends under review.
LEMMA HoldKeeps ==
  ASSUME ContentInv, Hold
  PROVE  ContentInv'
<1> DEFINE row == [reel EXCEPT !.ws = "awaiting_review", !.ps = "pending_review"]
<1>1. /\ run # None /\ run.step = "stored" /\ reel' = row /\ run' = None
      /\ media' = media /\ agency' = agency /\ newest' = newest /\ jobs' = jobs
      /\ requests' = requests /\ changes' = changes /\ queue' = queue
      /\ stale' = stale /\ feed' = feed /\ behind' = behind
  BY Zenon DEF Hold, Stage, Settings
<1>2. /\ TypeOK /\ IsFiniteSet(queue) /\ Caught
      /\ reel # None /\ reel \in ReelRows /\ reel.listing = run.job.listing
      /\ reel.targets = run.targets /\ run.template \in Kept("template")
      /\ reel.listing <= newest
      /\ run \in Runs /\ run.job.listing \in DOMAIN Listings
  BY <1>1, Later
<1>3. /\ row \in ReelRows /\ row.listing = reel.listing /\ row.ws = "awaiting_review"
      /\ row.photos = reel.photos /\ row.subtitles = reel.subtitles
      /\ row.slides = reel.slides /\ row.auto = reel.auto
  BY <1>2 DEF ReelRows, States, Statuses
<1> HIDE DEF row
<1>4. TypeOK' /\ IsFiniteSet(queue)'
  <2>1. stale' \in BOOLEAN
    BY <1>1, <1>2 DEF TypeOK
  <2> QED
    BY <1>1, <1>2, <1>3, <2>1, StageType
<1>5. Carried'
  BY <1>1 DEF Carried
<1>6. Caught'
  BY <1>1, <1>2, <1>3, StageCaught
<1>7. Shown'
  <2>1. /\ MediaShows' <=> MediaShows
        /\ SnapshotMade' <=> SnapshotMade
        /\ SnapshotStored' <=> SnapshotStored
    BY <1>1, <1>3, SameShown
  <2> QED
    BY <1>1, <2>1 DEF ContentInv, Shown
<1>8. PostedAsPlanned'
  BY <1>1, <1>3 DEF PostedAsPlanned
<1>c. AtMostOneCaption'
  BY <1>1 DEF ContentInv, AtMostOneCaption
<1> QED
  BY <1>c, <1>4, <1>5, <1>6, <1>7, <1>8 DEF ContentInv

\* A publication counts as published only when it reached every platform.
LEMMA Outcomes ==
  ASSUME NEW reached \in SUBSET DOMAIN run.targets
  PROVE  /\ Outcome(reached) \in {"published", "failed", "partial"}
         /\ Outcome(reached) = "published" => reached = DOMAIN run.targets
<1>1. CASE reached = DOMAIN run.targets
  <2>1. CASE reached = {}
    BY <1>1, <2>1 DEF Outcome
  <2>2. CASE reached # {}
    BY <1>1, <2>2 DEF Outcome
  <2> QED
    BY <2>1, <2>2
<1>2. CASE reached # DOMAIN run.targets /\ reached = {}
  BY <1>2 DEF Outcome
<1>3. CASE reached # DOMAIN run.targets /\ reached # {}
  BY <1>3 DEF Outcome
<1> QED
  BY <1>1, <1>2, <1>3

\* The words of the plan are those posted, for the plan always has some.
LEMMA PlannedWordsPosted ==
  ASSUME NEW targets \in TargetPlans, NEW captions, NEW l, NEW video, NEW p \in DOMAIN targets
  PROVE  /\ Posts(targets, captions, l, video, video)[p].text = targets[p].text
         /\ Posts(targets, captions, l, video, video)[p].media = video
<1>1. targets[p].text # <<>>
  BY PlansHaveWords
<1>2. PostedText(targets[p], captions, p, l) = targets[p].text
  BY <1>1 DEF PostedText, OrElse
<1>3. PostedMedia(targets[p], video, video) = video
  BY DEF PostedMedia
<1> QED
  BY <1>2, <1>3 DEF Posts

\* The job ends with its posts, or goes on to fail.
LEMMA PublishKeeps ==
  ASSUME ContentInv, NEW reached \in SUBSET DOMAIN run.targets, Publish(reached)
  PROVE  ContentInv'
<1> DEFINE posts == Posts(run.targets, run.captions, Listings[run.job.listing],
                          media.listing, media.listing)
           row == [reel EXCEPT !.ws = Outcome(reached), !.ps = Outcome(reached)]
           failed == [run EXCEPT !.step = "failed"]
<1>1. /\ run # None /\ run.step = "stored" /\ reel' = row
      /\ run' = (IF reached = {} THEN failed ELSE None)
      /\ feed' = [p \in reached |-> posts[p]]
      /\ media' = media /\ agency' = agency /\ newest' = newest /\ jobs' = jobs
      /\ requests' = requests /\ changes' = changes /\ queue' = queue
      /\ stale' = stale /\ behind' = behind
  BY Zenon DEF Publish, Stage, Settings
<1>2. /\ TypeOK /\ IsFiniteSet(queue) /\ Caught
      /\ reel # None /\ reel \in ReelRows /\ reel.listing = run.job.listing
      /\ reel.targets = run.targets /\ run.template \in Kept("template")
      /\ reel.listing <= newest
      /\ run \in Runs /\ run.job.listing \in DOMAIN Listings
  BY <1>1, Later
<1>3. media.listing = run.job.listing
  BY <1>1 DEF ContentInv, Carried
<1>4. /\ row \in ReelRows /\ row.listing = reel.listing /\ row.ws = Outcome(reached)
      /\ row.targets = reel.targets /\ row.photos = reel.photos
      /\ row.subtitles = reel.subtitles /\ row.slides = reel.slides
      /\ row.auto = reel.auto
  BY <1>2, Outcomes DEF ReelRows, States, Statuses
<1>5. /\ failed \in Runs /\ failed.job = run.job /\ failed.step = "failed"
      /\ failed.targets = run.targets /\ failed.template = run.template
  BY <1>2 DEF Runs
<1>6. run.targets \in TargetPlans
  BY <1>1, <1>2, RunFields
<1> HIDE DEF row, failed
<1>7. reel' # None /\ failed # None
  BY <1>1, <1>4, <1>5, NoneAssumption
<1>8. TypeOK' /\ IsFiniteSet(queue)'
  <2>1. stale' \in BOOLEAN
    BY <1>1, <1>2 DEF TypeOK
  <2> QED
    BY <1>1, <1>2, <1>4, <1>5, <2>1, StageType
<1>9. Carried'
  BY <1>1, <1>2, <1>3, <1>4, <1>5, <1>7 DEF Carried
<1>10. Caught'
  BY <1>1, <1>2, <1>4, <1>5, <1>7, StageCaught
<1>11. Shown'
  <2>1. /\ MediaShows' <=> MediaShows
        /\ SnapshotMade' <=> SnapshotMade
        /\ SnapshotStored' <=> SnapshotStored
    BY <1>1, <1>4, SameShown
  <2> QED
    BY <1>1, <1>5, <1>7, <2>1 DEF ContentInv, Shown
<1>12. PostedAsPlanned'
  <2> SUFFICES ASSUME reel'.ws = "published", NEW p \in DOMAIN reel'.targets
               PROVE  /\ p \in DOMAIN feed'
                      /\ feed'[p].text = reel'.targets[p].text
                      /\ feed'[p].media = reel'.listing
    BY DEF PostedAsPlanned
  <2>1. reached = DOMAIN run.targets
    BY <1>1, <1>4, Outcomes
  <2>2. reel'.targets = run.targets /\ p \in reached
    BY <1>1, <1>2, <1>4, <2>1
  <2>3. posts[p].text = run.targets[p].text /\ posts[p].media = media.listing
    BY <1>6, <2>2, PlannedWordsPosted
  <2> HIDE DEF posts
  <2> QED
    BY <1>1, <1>2, <1>3, <1>4, <2>2, <2>3
<1>c. AtMostOneCaption'
  BY <1>1 DEF ContentInv, AtMostOneCaption
<1> QED
  BY <1>c, <1>8, <1>9, <1>10, <1>11, <1>12 DEF ContentInv

\* The job waits again, beside one that came later.
LEMMA RetryKeeps ==
  ASSUME ContentInv, Retry
  PROVE  ContentInv'
<1> DEFINE again == [run.job EXCEPT !.tries = @ + 1]
<1>1. /\ run # None /\ run.job.tries + 1 < MaxTries
      /\ queue' = queue \cup {again} /\ run' = None
      /\ behind' = (behind \/ \E job \in queue : job.listing > run.job.listing)
      /\ agency' = agency /\ newest' = newest /\ jobs' = jobs /\ requests' = requests
      /\ changes' = changes /\ reel' = reel /\ media' = media /\ feed' = feed
      /\ stale' = stale
  BY DEF Retry, Settings
<1>2. TypeOK /\ IsFiniteSet(queue) /\ Caught
  BY DEF ContentInv
<1>3. /\ run.job \in Jobs /\ run.job.listing \in DOMAIN Listings
      /\ run.job.listing <= newest /\ run.job.tries \in 0..(MaxTries - 1)
  BY <1>1, <1>2, RunFields
<1>4. again \in Jobs /\ again.listing = run.job.listing
  <2>1. run.job.tries + 1 \in 0..(MaxTries - 1)
    BY <1>1, <1>3, SettingsBounds
  <2> QED
    BY <1>3, <2>1 DEF Jobs
<1> HIDE DEF again
<1>5. TypeOK'
  <2>1. Cardinality(queue') + (IF run' = None THEN 0 ELSE 1) <= 2
    <3>1. Cardinality(queue) \in Nat
      BY <1>2, FS_CardinalityType
    <3>2. Cardinality(queue) <= 1
      BY <1>1, <1>2, <3>1 DEF TypeOK
    <3>3. Cardinality(queue') = Cardinality(queue)
          \/ Cardinality(queue') = Cardinality(queue) + 1
      BY <1>1, <1>2, FS_AddElement
    <3> QED
      BY <1>1, <3>1, <3>2, <3>3
  <2>2. queue' \subseteq Jobs
    BY <1>1, <1>2, <1>4 DEF TypeOK
  <2>3. ASSUME NEW j \in UnderWay'
        PROVE  j.listing <= newest'
    BY <1>1, <1>2, <1>3, <1>4 DEF TypeOK, UnderWay
  <2>4. behind' \in BOOLEAN
    BY <1>1, <1>2 DEF TypeOK
  <2> QED
    BY <1>1, <1>2, <2>1, <2>2, <2>3, <2>4 DEF TypeOK
<1>6. IsFiniteSet(queue)'
  BY <1>1, <1>2, FS_AddElement
<1>7. Carried'
  BY <1>1 DEF Carried
<1>8. Caught'
  <2> SUFFICES ASSUME ~behind, ~\E job \in queue : job.listing > run.job.listing
               PROVE  run.job.listing = newest
    BY <1>1, <1>2, <1>4 DEF Caught
  <2>1. CASE queue = {}
    BY <1>1, <1>2, <2>1 DEF Caught
  <2>2. CASE queue # {}
    <3>1. PICK job \in queue : TRUE
      BY <2>2
    <3>2. job.listing = newest
      BY <1>2 DEF Caught
    <3>3. ~(newest > run.job.listing)
      BY <3>2
    <3> QED
      BY <1>2, <1>3, <3>3, ListingNumbers DEF TypeOK
  <2> QED
    BY <2>1, <2>2
<1>9. Shown'
  BY <1>1 DEF Shown
<1>10. PostedAsPlanned'
  BY <1>1 DEF ContentInv, PostedAsPlanned
<1>c. AtMostOneCaption'
  BY <1>1 DEF ContentInv, AtMostOneCaption
<1> QED
  BY <1>c, <1>5, <1>6, <1>7, <1>8, <1>9, <1>10 DEF ContentInv

\* The job ends without having done its work.
LEMMA GiveUpKeeps ==
  ASSUME ContentInv, GiveUp
  PROVE  ContentInv'
<1>1. /\ run # None /\ run' = None /\ stale' = TRUE
      /\ behind' = (behind \/ (run.step = "taken" /\ run.job.listing = newest))
      /\ agency' = agency /\ newest' = newest /\ jobs' = jobs /\ requests' = requests
      /\ changes' = changes /\ reel' = reel /\ queue' = queue /\ media' = media
      /\ feed' = feed
  BY DEF GiveUp, Settings
<1>2. TypeOK /\ IsFiniteSet(queue) /\ Caught
  BY DEF ContentInv
<1>3. TypeOK'
  <2>1. Cardinality(queue') + (IF run' = None THEN 0 ELSE 1) <= 2
    <3>1. Cardinality(queue) \in Nat
      BY <1>2, FS_CardinalityType
    <3> QED
      BY <1>1, <1>2, <3>1 DEF TypeOK
  <2>2. \A j \in UnderWay' : j.listing <= newest'
    BY <1>1, <1>2 DEF TypeOK, UnderWay
  <2>3. behind' \in BOOLEAN
    BY <1>1, <1>2 DEF TypeOK
  <2> QED
    BY <1>1, <1>2, <2>1, <2>2, <2>3 DEF TypeOK
<1>4. Carried'
  BY <1>1 DEF Carried
<1>5. Caught'
  BY <1>1, <1>2 DEF ContentInv, Caught, Carried
<1>6. Shown'
  BY <1>1 DEF Shown
<1>7. PostedAsPlanned'
  BY <1>1 DEF ContentInv, PostedAsPlanned
<1>c. AtMostOneCaption'
  BY <1>1 DEF ContentInv, AtMostOneCaption
<1> QED
  BY <1>c, <1>1, <1>2, <1>3, <1>4, <1>5, <1>6, <1>7 DEF ContentInv

\* Every step keeps the invariant.
LEMMA NextKeeps ==
  ASSUME ContentInv, [Next]_vars
  PROVE  ContentInv'
<1>1. CASE Deliver
  BY <1>1, DeliverKeeps
<1>2. CASE Editor
  <2>1. EditorStep
    BY <1>2, EditorSteps DEF ContentInv
  <2> QED
    BY <2>1, EditorKeeps
<1>3. ASSUME NEW settings \in Agencies, ChangeSettings(settings)
      PROVE  ContentInv'
  BY <1>3, ChangeSettingsKeeps
<1>4. CASE Worker
  <2>1. ASSUME NEW job \in queue, Take(job)
        PROVE  ContentInv'
    BY <2>1, TakeKeeps
  <2>2. ASSUME NEW reached \in SUBSET DOMAIN run.targets, Publish(reached)
        PROVE  ContentInv'
    BY <2>2, PublishKeeps
  <2> QED
    BY <1>4, <2>1, <2>2, IngestKeeps, RenderKeeps, StoreRowKeeps, HoldKeeps, RetryKeeps,
       GiveUpKeeps DEF Worker
<1>5. CASE UNCHANGED vars
  <2>1. /\ agency' = agency /\ newest' = newest /\ reel' = reel /\ queue' = queue
        /\ run' = run /\ media' = media /\ feed' = feed /\ jobs' = jobs
        /\ requests' = requests /\ changes' = changes /\ stale' = stale
        /\ behind' = behind
    BY <1>5 DEF vars
  <2>2. TypeOK'
    BY <2>1 DEF ContentInv, TypeOK, UnderWay
  <2>3. Carried'
    BY <2>1 DEF ContentInv, Carried
  <2>4. Caught'
    BY <2>1 DEF ContentInv, Caught
  <2>5. Shown'
    BY <2>1, SameShown DEF ContentInv, Shown
  <2>6. PostedAsPlanned'
    BY <2>1 DEF ContentInv, PostedAsPlanned
  <2>7. AtMostOneCaption'
    BY <2>1 DEF ContentInv, AtMostOneCaption
  <2> QED
    BY <2>1, <2>2, <2>3, <2>4, <2>5, <2>6, <2>7 DEF ContentInv
<1> QED
  BY <1>1, <1>2, <1>3, <1>4, <1>5 DEF Next

\* The invariant holds in every state, for any listings, settings, edits and bounds.
THEOREM ContentAlways == Spec => []ContentInv
<1>1. Init => ContentInv
  BY InitInv
<1>2. ContentInv /\ [Next]_vars => ContentInv'
  BY NextKeeps
<1> QED
  BY <1>1, <1>2, PTL DEF Spec

\* What ListingCaughtUp says of process_property_webhook and its retries: when nothing
\* is left to do the record is the newest listing delivered.
THEOREM ContentCaughtUp == Spec => []ListingCaughtUp
<1>1. ContentInv => ListingCaughtUp
  BY DEF ContentInv, Caught, ListingCaughtUp, AtRest
<1> QED
  BY <1>1, ContentAlways, PTL

\* What VideoShowsTheRow says of the edits and the render: no edit is lost between
\* the row, its job and the video.
THEOREM ContentShowsTheRow == Spec => []VideoShowsTheRow
<1>1. ContentInv => VideoShowsTheRow
  <2> SUFFICES ASSUME ContentInv, AtRestRendered, ~stale
               PROVE  MediaShows
    BY Zenon DEF VideoShowsTheRow, MediaShows
  <2> QED
    BY DEF ContentInv, Shown, AtRestRendered, AtRest
<1> QED
  BY <1>1, ContentAlways, PTL

\* Of the snapshots a row may hold the editor can send back any one.
LEMMA SnapshotsValid ==
  ASSUME ContentInv
  PROVE  SnapshotCanBeSentBack
<1> SUFFICES ASSUME reel # None, SnapshotShown(reel) # None,
                    \A i \in DOMAIN SnapshotShown(reel) :
                      Len(SnapshotShown(reel)[i].text) <= MaxCueText
             PROVE  SubtitlesPayload(SnapshotShown(reel)) /\ ValidCues(SnapshotShown(reel))
  BY Zenon DEF SnapshotCanBeSentBack
<1>1. reel.auto \in Snapshots /\ reel.auto # <<>> /\ reel.auto # None
      /\ SnapshotShown(reel) = reel.auto
  <2>1. reel.auto \in Snapshots
    BY RowFields DEF ContentInv, ReelRows
  <2> QED
    BY <2>1 DEF SnapshotShown
<1>2. PICK i \in DOMAIN Listings, photos \in Orders, slides \in SlideLists, a \in Agencies,
           cues \in CueLists :
        reel.auto = Snapshot(Listings[i], photos, slides, a.template, cues)
  BY <1>1 DEF Snapshots
<1> DEFINE l == Listings[i]
           captions == CaptionsOf(l, Ordered(l, photos, slides))
           per == ProfileTemplate(l, a.template).per
<1>3. reel.auto = AutoCues(captions, per)
  BY <1>1, <1>2 DEF Snapshot
<1>4. captions \in Seq(Seq(Words))
  BY OrderedPhotos, CaptionsAreTexts
<1>5. per \in Nat \ {0}
  <2>1. a.template \in Templates
    BY ContentAssumption DEF ContentAssumption, Templates
  <2> QED
    BY <2>1, ProfileKeeps DEF Templates
<1> HIDE DEF captions, per
<1>6. SubtitlesPayload(AutoCues(captions, per)) /\ ValidCues(AutoCues(captions, per))
  BY <1>1, <1>3, <1>4, <1>5, AutoCuesValid
<1> QED
  BY <1>1, <1>3, <1>6

\* At rest the snapshot on record is the video's, which has a cue for each caption.
LEMMA SnapshotsTell ==
  ASSUME ContentInv
  PROVE  SnapshotTellsVideo
<1> DEFINE t == media.template
           count == Len(media.photos)
           shown == SnapshotShown(reel)
           l == Listings[reel.listing]
           captions == CaptionsOf(l, media.photos)
<1> SUFFICES ASSUME AtRestRendered, ~stale, media.cues # {}, media.files = media.photos,
                    \A k \in 1..count : SegmentLengths(t, count)[k] = t.per,
                    shown # None, reel.subtitles = None
             PROVE  media.cues = {[text |-> c.text, in |-> c.in + media.intro,
                                   out |-> c.out + media.intro] : c \in Range(shown)}
  BY Zenon DEF SnapshotTellsVideo
<1>1. /\ reel # None /\ TypeOK
      /\ MediaShows /\ SnapshotMade /\ SnapshotStored
  BY DEF ContentInv, Shown, AtRestRendered, AtRest
<1>2. /\ reel.listing \in DOMAIN Listings /\ reel.photos \in Orders
      /\ reel.slides \in SlideLists
  BY <1>1, RowFields DEF ReelRows
<1>3. /\ media.files = Ordered(l, reel.photos, reel.slides) /\ media.intro \in Nat
      /\ \E a \in Kept("template") :
           /\ t = ProfileTemplate(l, a)
           /\ media.auto = Snapshot(l, reel.photos, reel.slides, a, reel.subtitles)
  BY <1>1 DEF SnapshotMade
<1>4. PICK a \in Kept("template") :
           /\ t = ProfileTemplate(l, a)
           /\ media.auto = Snapshot(l, reel.photos, reel.slides, a, reel.subtitles)
  BY <1>3
<1>5. t \in Templates
  <2>1. a \in Templates
    BY ContentAssumption DEF ContentAssumption, Templates, Kept
  <2> QED
    BY <1>4, <2>1, ProfileKeeps
<1>6. media.auto = AutoCues(captions, t.per)
  BY <1>3, <1>4 DEF Snapshot
<1>7. media.photos \in Seq(DOMAIN l.captions)
  BY <1>2, <1>3, OrderedPhotos
<1>8. count \in Nat /\ Len(captions) = count /\ DOMAIN captions = 1..count
  BY <1>2, <1>7, CaptionsAreTexts
<1>9. media.cues = DrawnCues(None, captions, t, media.intro)
  BY <1>1 DEF MediaShows, CuesDrawn
<1> HIDE DEF captions, t, count
<1>10. media.cues = {[text |-> c.text, in |-> c.in + media.intro,
                      out |-> c.out + media.intro] : c \in Range(media.auto)}
  BY <1>3, <1>5, <1>6, <1>8, <1>9, AutoCuesDrawn
<1>11. media.auto # <<>>
  <2>1. Range(<<>>) = {}
    BY DEF Range
  <2> QED
    BY <1>10, <2>1
<1>12. shown = media.auto
  BY <1>1, <1>11 DEF SnapshotStored, SnapshotShown
<1> QED
  BY <1>10, <1>12

\* What CaptionsAgree says of AutoCues, of the cues the editor may send and of the time
\* line of the video: what is drawn is what the editor is shown and can send back, and
\* never two captions at a time.
THEOREM ContentCaptionsAgree == Spec => []CaptionsAgree
<1>1. ContentInv => CaptionsAgree
  BY SnapshotsValid, SnapshotsTell DEF ContentInv, CaptionsAgree
<1> QED
  BY <1>1, ContentAlways, PTL

\* The files have no more segments than templates allow.
PhotosFit == media # None => Len(media.photos) \in 0..MaxSlides

\* Of the steps only a render makes files.
LEMMA FilesFit ==
  ASSUME ContentInv, PhotosFit, [Next]_vars
  PROVE  PhotosFit'
<1>1. ASSUME media' = media
      PROVE  PhotosFit'
  BY <1>1 DEF PhotosFit
<1>2. CASE Render
  <2> DEFINE l == Listings[run.job.listing]
             template == ProfileTemplate(l, run.template)
             files == Ordered(l, run.photos, run.slides)
             photos == SlidesShown(files, l.featured, template)
  <2>1. media' = Video(l, run) /\ run # None /\ run.step = "ingested"
    BY <1>2, Zenon DEF Render, Stage
  <2>2. run \in Runs /\ run.job.listing \in DOMAIN Listings /\ run.template \in Kept("template")
    BY <2>1, Later
  <2>3. PICK a \in Agencies : run.template = a.template
    BY <2>2 DEF Kept
  <2>4. /\ run.photos \in Orders /\ run.slides \in SlideLists
        /\ run.template \in Templates
    BY <2>2, RunParts
  <2>5. template \in Templates /\ template.max <= run.template.max
    BY <2>4, ProfileKeeps
  <2>6. files \in Seq(DOMAIN l.captions)
    BY <2>2, <2>4, OrderedPhotos
  <2>7. photos \in Seq(DOMAIN l.captions) /\ Len(photos) <= template.max
    BY <2>2, <2>5, <2>6, ShownPhotos
  <2>8. Len(photos) \in Nat
    <3> DEFINE D == DOMAIN l.captions
    <3>1. photos \in Seq(D)
      BY <2>7
    <3> HIDE DEF D, photos
    <3> QED
      BY <3>1, LenProperties
  <2>9. media'.photos = photos
    BY <2>1 DEF Video
  <2>10. run.template.max <= MaxSlides /\ MaxSlides \in Nat
    BY <2>3, ContentAssumption DEF ContentAssumption
  <2> HIDE DEF photos, template
  <2>11. Len(photos) \in 0..MaxSlides
    BY <2>4, <2>5, <2>7, <2>8, <2>10 DEF Templates
  <2> QED
    BY <2>9, <2>11 DEF PhotosFit
<1>3. CASE Deliver
  BY <1>1, <1>3 DEF Deliver
<1>4. CASE Editor
  BY <1>1, <1>4, EditorSteps DEF ContentInv, EditorStep
<1>5. ASSUME NEW settings \in Agencies, ChangeSettings(settings)
      PROVE  PhotosFit'
  BY <1>1, <1>5 DEF ChangeSettings
<1>6. CASE Worker
  <2>1. ASSUME NEW job \in queue, Take(job)
        PROVE  PhotosFit'
    BY <1>1, <2>1 DEF Take
  <2>2. ASSUME NEW reached \in SUBSET DOMAIN run.targets, Publish(reached)
        PROVE  PhotosFit'
    BY <1>1, <2>2 DEF Publish
  <2>3. CASE Ingest
    BY <1>1, <2>3 DEF Ingest
  <2>4. CASE StoreRow
    BY <1>1, <2>4 DEF StoreRow
  <2>5. CASE Hold
    BY <1>1, <2>5 DEF Hold
  <2>6. CASE Retry
    BY <1>1, <2>6 DEF Retry
  <2>7. CASE GiveUp
    BY <1>1, <2>7 DEF GiveUp
  <2> QED
    BY <1>2, <1>6, <2>1, <2>2, <2>3, <2>4, <2>5, <2>6, <2>7 DEF Worker
<1>7. CASE UNCHANGED vars
  BY <1>1, <1>7 DEF vars
<1> QED
  BY <1>3, <1>4, <1>5, <1>6, <1>7 DEF Next

\* A video can be played in any pieces.
LEMMA VideosStream ==
  ASSUME PhotosFit
  PROVE  VideoStreams
<1> SUFFICES ASSUME media # None
             PROVE  StreamsOfSize[Len(media.photos)]
  BY DEF VideoStreams
<1> DEFINE size == Len(media.photos)
<1>1. size \in 0..MaxSlides /\ MaxSlides \in Nat
  BY ContentAssumption DEF PhotosFit, ContentAssumption
<1> HIDE DEF size
<1>2. StreamsOfSize[size] = Streams(size)
  BY <1>1 DEF StreamsOfSize
<1>3. Streams(size)
  BY <1>1, FilesStream
<1> QED
  BY <1>2, <1>3 DEF size

\* Who turns the pages meets every row there is, wherever the reel stands.
LEMMA ReelIsFoundAt ==
  ASSUME reel \in ReelRows, NEW place \in Places
  PROVE  FoundAt(place)
<1> DEFINE large == SearchFor(reel, None, None)
           small == [page \in DOMAIN RowsAt(place) |->
                      ListReels(RowsAt(place), SearchFor(reel, page, 0))]
           last == CHOOSE page \in DOMAIN RowsAt(place) : ~small[page].more
           lists == [page \in 1..last |-> small[page].items]
           turned == Joined(lists, last)
           h == Len(Hits(place))
<1>1. /\ Hits(place) \in Seq(Range(RowsAt(place))) /\ h \in Nat /\ h <= Len(RowsAt(place))
      /\ \E k \in 1..h : Hits(place)[k] = reel
  BY ReelIsHit
<1>2. /\ Len(RowsAt(place)) \in Nat \ {0} /\ RowsAt(place)[place + 1] = reel
      /\ DOMAIN RowsAt(place) = 1..Len(RowsAt(place))
  <2> DEFINE S == Range(RowsAt(place))
  <2>1. /\ RowsAt(place) \in Seq(S) /\ Len(RowsAt(place)) \in Nat \ {0}
        /\ RowsAt(place)[place + 1] = reel
    BY RowsAreList
  <2> HIDE DEF S
  <2> QED
    BY <2>1, LenProperties
<1> HIDE DEF h
<1>3. ASSUME NEW page \in 1..Len(RowsAt(place))
      PROVE  /\ small[page].items \in Seq(ItemsAt(place))
             /\ Len(small[page].items) = IF page <= h THEN 1 ELSE 0
             /\ page <= h => small[page].items[1] = Item(Hits(place)[page])
             /\ small[page].more = (page < h)
  <2>1. small[page] = ListReels(RowsAt(place), SearchFor(reel, page, 0))
    BY <1>2
  <2>2. page \in Nat \ {0}
    BY <1>2
  <2> HIDE DEF small
  <2> QED
    BY <2>1, <2>2, SmallPage DEF h
<1> HIDE DEF small
<1>4. last \in 1..Len(RowsAt(place)) /\ h <= last
  <2>1. Len(RowsAt(place)) \in DOMAIN RowsAt(place) /\ ~small[Len(RowsAt(place))].more
    <3>1. Len(RowsAt(place)) \in 1..Len(RowsAt(place)) /\ ~(Len(RowsAt(place)) < h)
      BY <1>1, <1>2
    <3>2. small[Len(RowsAt(place))].more = (Len(RowsAt(place)) < h)
      BY <1>3, <3>1
    <3>3. ~small[Len(RowsAt(place))].more
      BY <3>1, <3>2, Zenon
    <3> QED
      BY <1>2, <3>1, <3>3
  <2>2. last \in DOMAIN RowsAt(place) /\ ~small[last].more
    BY <2>1, Zenon
  <2> HIDE DEF last
  <2>3. last \in 1..Len(RowsAt(place))
    BY <1>2, <2>2
  <2>4. ~(last < h)
    BY <1>3, <2>2, <2>3
  <2> QED
    BY <1>1, <1>2, <2>3, <2>4
<1> HIDE DEF last
<1>5. /\ lists \in Seq(Seq(ItemsAt(place))) /\ Len(lists) = last
      /\ \A page \in 1..last : lists[page] = small[page].items
  <2>1. last \in Nat /\ \A page \in 1..last : page \in 1..Len(RowsAt(place))
    BY <1>2, <1>4
  <2>2. \A page \in 1..last : small[page].items \in Seq(ItemsAt(place))
    BY <1>3, <2>1
  <2> QED
    BY <2>1, <2>2
<1> HIDE DEF lists
<1> DEFINE Met(t, m) == /\ t \in Seq(ItemsAt(place))
                        /\ Len(t) = IF m <= h THEN m ELSE h
                        /\ \A k \in 1..Len(t) : t[k] = Item(Hits(place)[k])
           T == {m \in 0..last : Met(Joined(lists, m), m)}
<1>6. 0 \in T
  <2>1. Joined(lists, 0) = <<>>
    BY <1>5, Joins
  <2>2. <<>> \in Seq(ItemsAt(place)) /\ Len(<<>>) = 0
    OBVIOUS
  <2>3. Met(<<>>, 0)
    BY <1>1, <2>2
  <2>4. 0 \in 0..last
    BY <1>2, <1>4
  <2> HIDE DEF Met
  <2> QED
    BY <2>1, <2>3, <2>4
<1>7. ASSUME NEW m \in 0..last, m # last, m \in T
      PROVE  m + 1 \in T
  <2> DEFINE t == Joined(lists, m)
             p == lists[m + 1]
             u == Joined(lists, m + 1)
  <2>1. m + 1 \in 1..last /\ (m + 1) - 1 = m /\ m + 1 \in 0..last /\ m + 1 \in 1..Len(RowsAt(place))
        /\ m \in Nat
    BY <1>2, <1>4, <1>7
  <2>2. u = t \o p
    <3>1. Joined(lists, m + 1) = Joined(lists, (m + 1) - 1) \o lists[m + 1]
      BY <1>5, <2>1, Joins
    <3> QED
      BY <2>1, <3>1
  <2>3. /\ p \in Seq(ItemsAt(place)) /\ Len(p) = IF m + 1 <= h THEN 1 ELSE 0
        /\ m + 1 <= h => p[1] = Item(Hits(place)[m + 1])
    BY <1>3, <1>5, <2>1
  <2>4. Met(t, m)
    BY <1>7
  <2> HIDE DEF t, p, u
  <2>5. /\ u \in Seq(ItemsAt(place)) /\ Len(u) = Len(t) + Len(p)
        /\ \A k \in 1..(Len(t) + Len(p)) : u[k] = IF k <= Len(t) THEN t[k] ELSE p[k - Len(t)]
    BY <2>2, <2>3, <2>4, ConcatProperties
  <2>6. Len(u) = IF m + 1 <= h THEN m + 1 ELSE h
    BY <1>1, <2>1, <2>3, <2>4, <2>5
  <2>7. ASSUME NEW k \in 1..Len(u)
        PROVE  u[k] = Item(Hits(place)[k])
    <3>1. Len(t) \in Nat /\ Len(p) \in Nat
      BY <2>3, <2>4
    <3>2. CASE k <= Len(t)
      BY <2>4, <2>5, <2>7, <3>1, <3>2
    <3>3. CASE ~(k <= Len(t))
      <4>1. m + 1 <= h /\ Len(t) = m /\ k = m + 1
        BY <1>1, <2>1, <2>3, <2>4, <2>5, <3>1, <3>3, SMTT(30)
      <4>2. k - Len(t) = 1
        BY <2>1, <4>1
      <4> QED
        BY <2>3, <2>5, <3>1, <3>3, <4>1, <4>2
    <3> QED
      BY <3>2, <3>3
  <2>8. Met(u, m + 1)
    BY <2>5, <2>6, <2>7
  <2> HIDE DEF Met
  <2> QED
    BY <2>1, <2>8 DEF u
<1> HIDE DEF T, Met
<1>8. \A m \in 0..last : m \in T
  <2>1. last \in Nat
    BY <1>2, <1>4
  <2> QED
    BY <1>6, <1>7, <2>1, UpTo
<1>9. Met(turned, last)
  <2>1. last \in 0..last
    BY <1>2, <1>4
  <2> QED
    BY <1>8, <2>1 DEF T
<1> HIDE DEF turned
<1>10. /\ turned \in Seq(ItemsAt(place)) /\ Len(turned) = h
       /\ \A k \in 1..h : turned[k] = Item(Hits(place)[k])
  BY <1>1, <1>2, <1>4, <1>9 DEF Met
<1>11. Contains(turned, Item(reel))
  <2>1. PICK k \in 1..h : Hits(place)[k] = reel
    BY <1>1
  <2>2. turned[k] = Item(reel)
    BY <1>10, <2>1
  <2> QED
    BY <1>10, <2>2 DEF Contains
<1>12. Len(turned) = ListReels(RowsAt(place), large).count
  BY <1>10, LargePage DEF h
<1>13. ASSUME place < MaxInspected
       PROVE  Inspected(reel, RowsAt(place))
  <2>1. /\ MaxInspected \in Int /\ Len(RowsAt(place)) \in Int /\ place \in Nat
        /\ place + 1 <= MaxInspected /\ place + 1 <= Len(RowsAt(place))
    BY <1>2, <1>13, RowsAreList, ContentAssumption DEF ContentAssumption, Places
  <2>2. Min({MaxInspected, Len(RowsAt(place))})
          = IF MaxInspected <= Len(RowsAt(place)) THEN MaxInspected ELSE Len(RowsAt(place))
    BY <2>1, OfTwo, Zenon
  <2>3. place + 1 \in 1..Min({MaxInspected, Len(RowsAt(place))})
    BY <2>1, <2>2
  <2> QED
    BY <1>2, <2>3 DEF Inspected
<1>14. Accepted(large)
  BY SearchAccepted
<1> QED
  BY <1>11, <1>12, <1>13, <1>14, Zenon DEF FoundAt, turned, lists, last, small

\* However many of the others were changed after the reel.
LEMMA ReelIsFound ==
  ASSUME TypeOK
  PROVE  FoundByItsState
<1> SUFFICES ASSUME reel # None, NEW place \in 0..Len(Others)
             PROVE  FoundAt(place)
  BY DEF FoundByItsState
<1>1. reel \in ReelRows
  BY RowFields
<1>2. place \in Places
  BY DEF Places
<1> QED
  BY <1>1, <1>2, ReelIsFoundAt

\* What EditorFindsAndPlays says of the list of reels and of the range responses:
\* however many other reels were changed after it, the editor finds a reel by its state
\* on small pages as on a large one, the look-up finds it among the first MaxInspected,
\* and the player gets the video whole, in any pieces.
THEOREM ContentFoundAndPlayed == Spec => []EditorFindsAndPlays
<1>1. Init => PhotosFit
  BY DEF Init, PhotosFit
<1>2. ContentInv /\ PhotosFit /\ [Next]_vars => PhotosFit'
  BY FilesFit
<1>3. ContentInv /\ PhotosFit => EditorFindsAndPlays
  BY VideosStream, ReelIsFound DEF EditorFindsAndPlays, ContentInv
<1> QED
  BY <1>1, <1>2, <1>3, ContentAlways, PTL DEF Spec

\* What PostedOnRecord says of the publication: a reel on record as published was
\* posted everywhere with the video of its listing, and with the words of the plan on
\* record where the editor wrote none.
THEOREM ContentPosted == Spec => []PostedOnRecord
<1>1. ContentInv => PostedOnRecord
  BY DEF ContentInv, PostedAsPlanned, PostedOnRecord
<1> QED
  BY <1>1, ContentAlways, PTL

=============================================================================
