---------------------------- MODULE MediaUploads ----------------------------
(***************************************************************************)
(* The forms with which an administrator uploads music, an intro, an outro *)
(* or a logo: what the endpoints find in them, which they accept and under *)
(* which name the file is kept.                                            *)
(*                                                                         *)
(* A form tells whether its header says multipart and its body splits at   *)
(* the boundary, its size, and its parts in order.  A part has a name, a   *)
(* file name, a declared type, bytes, and a text with its length.  Of the  *)
(* bytes count what their beginning looks like, their size, and an id for  *)
(* the rest (their digest).  Sizes are in megabytes, any bytes at all are  *)
(* at least one.                                                           *)
(***************************************************************************)
EXTENDS Naturals, Sequences

MusicLimit == 20
LogoLimit == 5
LabelLimit == 200

\* What is accepted, and the suffix each type is stored under.
AudioSuffix ==
  [type \in {"audio/mpeg", "audio/mp4", "audio/wav", "audio/x-wav", "audio/wave"} |->
     CASE type = "audio/mpeg" -> ".mp3" [] type = "audio/mp4" -> ".m4a" [] OTHER -> ".wav"]

VideoSuffix ==
  [type \in {"video/mp4", "video/quicktime"} |-> IF type = "video/mp4" THEN ".mp4" ELSE ".mov"]

\* The type a stored file is served under.
ServedType ==
  [suffix \in {".mp3", ".m4a", ".wav", ".mp4", ".mov"} |->
     CASE suffix = ".mp3" -> "audio/mpeg" [] suffix = ".m4a" -> "audio/mp4"
       [] suffix = ".wav" -> "audio/wav"  [] suffix = ".mp4" -> "video/mp4"
       [] suffix = ".mov" -> "video/quicktime"]

Readable(form) == form.multipart /\ form.boundary

Named(form, name) == SelectSeq(form.parts, LAMBDA part : part.name = name)

HasPart(form, name) == Named(form, name) # <<>>

\* Of several files the first counts,
FilePart(form) == Head(Named(form, "file"))

\* of several texts the last.
TextPart(form, name) == LET all == Named(form, name) IN all[Len(all)]

Yes == {"1", "true", "yes", "on"}
No  == {"", "0", "false", "no", "off"}
DefaultText(form) ==
  IF HasPart(form, "is_default") THEN TextPart(form, "is_default").text ELSE "false"

\* The first bytes: an ID3 tag or an MPEG frame, an ftyp box (any MP4 file has
\* one), RIFF...WAVE.
LooksLike(type, bytes) ==
  bytes.begins = CASE type = "audio/mpeg" -> "mpeg" [] type = "audio/mp4" -> "ftyp"
                   [] OTHER -> "riff"

IsAudio(file) ==
  /\ file.type \in DOMAIN AudioSuffix
  /\ file.bytes.size \in 1 .. MusicLimit
  /\ LooksLike(file.type, file.bytes)

AcceptsMusic(form) ==
  /\ form.size =< MusicLimit
  /\ Readable(form) /\ HasPart(form, "file") /\ HasPart(form, "display_name")
  /\ DefaultText(form) \in Yes \cup No
  /\ TextPart(form, "display_name").length \in 1 .. LabelLimit
  /\ IsAudio(FilePart(form))

\* The name music is kept under: what is left of the client's file name when its
\* unusual characters are gone, or the digest; the suffix is that of the type.
\* Forms with different file names may get the same name.
MusicName(form, cleaned) ==
  LET file == FilePart(form)
      stem == cleaned[file.filename.stem]
  IN [stem   |-> IF stem = "" THEN <<"track", file.bytes.id>> ELSE <<stem>>,
      suffix |-> AudioSuffix[file.type]]

\* Neither the size of a video nor its beginning is looked at.
AcceptsVideo(form) ==
  /\ Readable(form) /\ HasPart(form, "file")
  /\ FilePart(form).type \in DOMAIN VideoSuffix
  /\ FilePart(form).bytes.size # 0

\* A video is kept under its digest, and the suffix of the declared type.
VideoKey(form) ==
  [bytes |-> FilePart(form).bytes, suffix |-> VideoSuffix[FilePart(form).type]]

\* The declared type and the suffix of the file name have to agree; the bytes
\* are not looked at.
AcceptsLogo(form) ==
  /\ form.size =< LogoLimit
  /\ Readable(form) /\ HasPart(form, "file")
  /\ LET file == FilePart(form)
     IN /\ \/ file.type = "image/jpeg" /\ file.filename.suffix \in {".jpg", ".jpeg"}
           \/ file.type = "image/png" /\ file.filename.suffix = ".png"
        /\ file.bytes.size \in 1 .. LogoLimit

\* A logo is kept under its digest: no logo overwrites another.
LogoKey(form) ==
  FilePart(form).bytes.id \o (IF FilePart(form).type = "image/png" THEN ".png" ELSE ".jpg")
=============================================================================
