---------------------------- MODULE MCCatalogRows ----------------------------
(* CatalogRows for TLC: two websites, two properties, an importer's number   *)
(* that is the id of the other property.                                   *)
EXTENDS CatalogRows

Host(name, port) == [name |-> name, port |-> port]
A == Host("a", None)
B == Host("b", None)
MCSites == {A, B}

Value(kind, n) == [kind |-> kind, n |-> n]

House == [id |-> Value("whole", 5), importer |-> Value("whole", 7),
          slug |-> Value("words", 1), beds |-> Value("whole", 3),
          mobile |-> None, phone |-> "office", email |-> "mail",
          accent |-> "hex", photo |-> "face",
          domain |-> A, site |-> None, link |-> None, guid |-> None]

Contact(p, mobile, phone, email) ==
  [p EXCEPT !.mobile = mobile, !.phone = phone, !.email = email]

\* Properties as their website, their importer and their plugin may write them.
Unnamed ==
  Contact([House EXCEPT !.id = Value("digits", 5), !.accent = "red", !.domain = None,
                         !.beds = Value("loose", 10)],
          None, None, "desk")
Listings ==
  {House,
   Contact([House EXCEPT !.id = Value("words", 2), !.importer = Value("loose", 7),
                         !.domain = None, !.link = Host(None, None), !.guid = A],
           None, "office", "desk"),
   Contact([House EXCEPT !.id = None, !.importer = None, !.slug = Value("words", 4)],
           None, None, "later"),
   [House EXCEPT !.id = Value("digits", 7), !.importer = Value("infinite", 0),
                 !.beds = Value("words", 2), !.slug = None],
   Contact([House EXCEPT !.id = Value("loose", 5), !.importer = Value("digits", 7),
                         !.domain = None, !.site = Host("b", 80)],
           "cell", "office", "later"),
   [House EXCEPT !.domain = None, !.link = Host("a", 80)]}

Delivery(header, body, array) == [header |-> header, body |-> body, array |-> array]
MCDeliveries ==
  {Delivery(None, <<p>>, FALSE) : p \in Listings}
  \cup {Delivery(A, <<Unnamed>>, TRUE), Delivery(None, <<House, House>>, TRUE)}

\* Two spellings of one slug, and a text nothing is left of.
MCPlain(text) == CASE text.n = 4 -> None [] OTHER -> "house"
MCCrc(value) == 100 + value.n

=============================================================================
