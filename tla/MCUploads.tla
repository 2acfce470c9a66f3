------------------------------ MODULE MCUploads ------------------------------
(* Instances of Uploads for TLC. *)
EXTENDS Uploads

CONSTANTS r1, r2, a1, a2, book, pic, doc

MCTwo == {r1, r2}
MCAccounts == {a1, a2}

\* An inline image, a remote one, a broken one, a reference.
Image(n) == [name |-> n, file_id |-> FALSE, type |-> "image", url |-> "none", data |-> "good"]
Remote(n) == [name |-> n, file_id |-> FALSE, type |-> "image_url", url |-> "http", data |-> "none"]
Broken(n) == [name |-> n, file_id |-> FALSE, type |-> "file", url |-> "none", data |-> "broken"]
Reference(n) == [name |-> n, file_id |-> TRUE, type |-> "file", url |-> "none", data |-> "none"]

MCWants ==
    { [acct |-> a1, blocks |-> <<>>, context |-> book],
      [acct |-> a1, blocks |-> <<Reference(doc), Remote(pic), Image(pic)>>, context |-> book],
      [acct |-> a2, blocks |-> <<Broken(pic)>>, context |-> None] }
=============================================================================
