------------------------- MODULE RequestValidation --------------------------
(***************************************************************************)
(* What HandleCreateTask lets through: TaskValidator.Validate and the      *)
(* checks around it.  A payload is reduced to what these checks and the    *)
(* handlers tell apart.                                                    *)
(***************************************************************************)
EXTENDS Naturals, Sequences

Types == {"resize_image", "scrape_url", "generate_report"}

(* omitted: not in the request; malformed: JSON that does not decode into  *)
(* the type's parameters; noSource: without its image_url or url;          *)
(* badOption: a size, mode, format or quality out of range; badKey: an     *)
(* object whose scraped_key is no string; good: the rest.                  *)
PayloadForms ==
    {"omitted", "malformed", "noSource", "badOption", "badKey", "good"}

(* A report's payload may name the object to read (scraped_key): a scraped *)
(* page or something else.                                                 *)
TaskRequest ==
    {r \in [type : Types \cup {"unsupported", ""}, payload : PayloadForms,
            key : {"omitted", "page", "other"}] :
       /\ r.key # "omitted" => r.type = "generate_report" /\ r.payload = "good"
       /\ r.payload = "noSource" => r.type \in {"resize_image", "scrape_url"}
       /\ r.payload = "badOption" => r.type = "resize_image"
       /\ r.payload = "badKey" => r.type = "generate_report"
       /\ r.type = "" => r.payload = "omitted"}

(* Mutant: a missing image_url or url is not noticed.                      *)
BugValidate(type, payload) ==
    CASE type = "resize_image"    -> payload \in {"noSource", "good"}
      [] type = "scrape_url"      -> payload \in {"noSource", "good"}
      [] type = "generate_report" -> payload # "malformed"
      [] OTHER                    -> FALSE

(* The parameters of resize_image and scrape_url are decoded as their      *)
(* handlers decode them; of a report's payload only that it is an object   *)
(* (or null) is looked at, not what its fields hold.                       *)
Validate(type, payload) ==
    CASE type = "resize_image"    -> payload = "good"
      [] type = "scrape_url"      -> payload = "good"
      [] type = "generate_report" -> payload # "malformed"
      [] OTHER                    -> FALSE

(* Whether a request for the steps of chain, the first of them to be run   *)
(* at executeAt, is taken.  Of the steps after the first, only the second  *)
(* is looked at, and its payload only when there is one.                   *)
Accepts(chain, executeAt) ==
    /\ chain[1].type \notin {"", "generate_report"}
    /\ chain[1].payload # "omitted"
    /\ executeAt # "past"
    /\ Validate(chain[1].type, chain[1].payload)
    /\ Len(chain) > 1 =>
          /\ chain[2].type # ""
          /\ \/ chain[2].payload = "omitted"
             \/ Validate(chain[2].type, chain[2].payload)
=============================================================================
