--------------------------- MODULE MCAgencyMedia ---------------------------
(* An agency with one seeded track, which may add another under the same or *)
(* a second name, and forms that are refused for one reason each.           *)
EXTENDS AgencyMedia

Bytes(begins, id) == [begins |-> begins, size |-> 9, id |-> id]

Part(name, stem, type, bytes, text) ==
  [name |-> name, filename |-> [stem |-> stem, suffix |-> ""], type |-> type,
   bytes |-> bytes, text |-> text, length |-> 4]

Form(parts) == [multipart |-> TRUE, boundary |-> TRUE, size |-> 10, parts |-> parts]

MCCleaned == [stem \in {"a", "a?", "??"} |-> IF stem = "??" THEN "" ELSE "a"]

Label == Part("display_name", "", "text/plain", Bytes("other", 0), "Song")
AsDefault(text) == Part("is_default", "", "text/plain", Bytes("other", 0), text)
Music(stem, type, bytes) == Part("file", stem, type, bytes, "")

Seed == Bytes("mpeg", 1)
MCSeeded == [t \in {"t1"} |-> [stem |-> <<"a">>, suffix |-> ".mp3"]]

Plain == Form(<<Music("a", "audio/mpeg", Seed), Label>>)

MCMusicForms ==
  {Form(<<Music(stem, "audio/mpeg", bytes), Label, AsDefault(text)>>) :
     stem \in {"a?", "??"}, bytes \in {Seed, Bytes("mpeg", 2)}, text \in {"on", ""}}
  \cup {Form(<<Music("a", "audio/wav", Bytes("riff", 3)), Label>>), Plain}
  \cup {[Plain EXCEPT !.size = 21], [Plain EXCEPT !.boundary = FALSE],
        [Plain EXCEPT !.parts[1].bytes.size = 0], [Plain EXCEPT !.parts[2].length = 0],
        [Plain EXCEPT !.parts[2].length = 201], Form(<<Label>>), Form(Tail(Plain.parts)),
        Form(<<Music("a", "audio/wav", Seed), Label>>),
        Form(<<Music("a", "video/mp4", Seed), Label>>),
        Form(<<Music("a", "audio/mpeg", Seed), Label, AsDefault("maybe")>>)}

MCVideoForms ==
  {Form(<<Part("file", "v", type, Bytes(begins, 4), "")>>) :
     type \in {"video/mp4", "video/quicktime", "audio/mpeg"}, begins \in {"ftyp"}}
=============================================================================
