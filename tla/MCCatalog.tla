----------------------------- MODULE MCCatalog ------------------------------
EXTENDS CatalogSubmissions
CONSTANTS h1, h2

Requester == {"checkout", "edit", "cancelSubmission", "reply"}
Desk == {"approve", "issueLine", "rejectSubmission", "requestInfo"}
Organization == {"orgApprove", "orgReject", "confirm", "decline"}
Buyers == {"review", "reject", "resolve", "convert"}
Filing == {"submit", "update", "cancel", "raiseShort"}

Only(a, b, n) == [may |-> [h \in Handler |-> IF h = h1 THEN a ELSE b], most |-> n]
MCInstances == {
  (* one request at a time: the submission, and what is bought for it *)
  Only(Requester \union Desk \union {"convert"}, {}, 2),
  Only({"checkout", "cancelSubmission", "approve"} \union Organization \union Buyers \union Filing, {}, 1),
  (* the requester and the organization against procurement *)
  Only({"checkout", "submit", "update", "cancel"} \union Organization, Buyers, 1),
  (* the requester against the desk *)
  Only(Requester, Desk, 1),
  (* the desk against itself, over an open question *)
  Only({"checkout", "requestInfo", "reply", "remind"}, {"remind", "cancelSubmission"}, 1)}

=============================================================================
