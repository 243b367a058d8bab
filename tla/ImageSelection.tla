--------------------------- MODULE ImageSelection ---------------------------
(***************************************************************************)
(* ensureImage with resolveImage, findImage, ensureImageShare and          *)
(* waitImageVisible (stackit.go 188-395): which image a deployment uses,   *)
(* in whose project it is looked for, imported and shared.  The import     *)
(* itself is the subject of Normalization: here an image is created and    *)
(* has its data, or is an orphan when the run that fed it has ended.       *)
(***************************************************************************)
EXTENDS Phases

VARIABLE images       \* of the home project and of the owner's

imageVars == <<images, networks>>

NoImage == [status |-> "none", owner |-> "home", label |-> "other", fed |-> FALSE,
            old |-> FALSE, agent |-> FALSE, shared |-> {}]

\* What a project lists: its own images and those that it shares.
Listed(project) ==
    {m \in Ids : /\ images[m].status # "none"
                 /\ \/ images[m].owner = project
                    \/ {project, "organization"} \cap images[m].shared # {}}

\* labelsMatch: the hash of the OVA and the mark of a normalized image.
Matching(project, status) ==
    {m \in Listed(project) : images[m].label = "match" /\ images[m].status = status}

Local(project, status) == {m \in Matching(project, status) : images[m].owner = project}

\* findImage: an available image of the project, else one that is shared with
\* it, else an import of the project.
Found(project) ==
    IF Local(project, "available") # {} THEN Local(project, "available")
    ELSE IF Matching(project, "available") # {} THEN Matching(project, "available")
    ELSE Local(project, "creating")

\* image.id is looked up in the owner project, if one is configured.
Configured(i) == plan[i].image \in Listed(plan[i].owner)

\* A hash label of another image, or none, is refused.
Accepted(m) == images[m].status \in {"available", "creating"} /\ images[m].label # "other"

\* An import that was not updated for half an hour is given up; one of another
\* project is waited for.
Chosen(i, m) ==
    \/ images[m].status = "available" /\ Learns(i, [image |-> m], "markImage")
    \/ /\ images[m].status = "creating"
       /\ IF images[m].old /\ images[m].owner = plan[i].owner
          THEN Learns(i, [image |-> m], "dropImage")
          ELSE Learns(i, [image |-> m], "waitImage")

FindImage(i) ==
    /\ At(i, "image")
    /\ \/ /\ plan[i].image # 0
          /\ \/ /\ Configured(i) /\ Accepted(plan[i].image)
                /\ Chosen(i, plan[i].image)
             \/ /\ ~(Configured(i) /\ Accepted(plan[i].image))
                /\ Stops(i, "refused")
       \/ /\ plan[i].image = 0
          /\ \/ \E m \in Found("home") : Chosen(i, m)
             \/ Found("home") = {} /\ To(i, "ownerImage")
    /\ UNCHANGED imageVars

\* The second search, if the owner is another project.
FindOwnerImage(i) ==
    /\ At(i, "ownerImage")
    /\ \/ /\ plan[i].owner # "home"
          /\ \E m \in Found(plan[i].owner) : Chosen(i, m)
       \/ /\ plan[i].owner # "home" => Found(plan[i].owner) = {}
          /\ To(i, "importNetwork")
    /\ UNCHANGED imageVars

DropImage(i) ==
    /\ At(i, "dropImage")
    /\ \/ /\ images[run[i].image].status # "none"
          /\ images' = [images EXCEPT ![run[i].image] = NoImage]
          /\ To(i, "importNetwork")
       \/ /\ images[run[i].image].status = "none"
          /\ Stops(i, "failed")
          /\ UNCHANGED images
    /\ UNCHANGED networks

WaitImage(i) ==
    /\ At(i, "waitImage")
    /\ \/ images[run[i].image].status = "available" /\ To(i, "markImage")
       \/ images[run[i].image].status = "none" /\ Stops(i, "failed")
    /\ UNCHANGED imageVars

\* The helper runs in the owner's project, in a network of the same name.
FindImportNetwork(i) ==
    /\ At(i, "importNetwork")
    /\ \/ plan[i].owner = "home" /\ To(i, "import")
       \/ plan[i].owner # "home" /\ networks[plan[i].owner] # {} /\ To(i, "import")
       \/ /\ plan[i].owner # "home" /\ networks[plan[i].owner] = {}
          /\ To(i, "makeImportNetwork")
    /\ UNCHANGED imageVars

MakeImportNetwork(i) ==
    /\ At(i, "makeImportNetwork")
    /\ \E n \in Ids :
          /\ IsNext(n, networks[plan[i].owner])
          /\ networks' = [networks EXCEPT ![plan[i].owner] = @ \cup {n}]
    /\ To(i, "import")
    /\ UNCHANGED images

\* An id is never given again: an image that was deleted is still remembered
\* by the runs that have found it and named by the servers made from it.
KnownImages ==
    {m \in Ids : \/ images[m].status # "none"
                 \/ \E j \in Installers : run[j].image = m
                 \/ \E s \in Ids : servers[s].image = m}

Import(i) ==
    /\ At(i, "import")
    /\ \E m \in Ids :
          /\ IsNext(m, KnownImages)
          /\ images' = [images EXCEPT ![m] =
                [status |-> "creating", owner |-> plan[i].owner, label |-> "match",
                 fed |-> FALSE, old |-> FALSE, agent |-> TRUE, shared |-> {}]]
          /\ Learns(i, [image |-> m], "upload")
    /\ UNCHANGED networks

\* Another run may have judged the image stale and deleted it (see Deadline).
ImageThere(i) == images[run[i].image].status # "none"

Upload(i) ==
    /\ At(i, "upload") /\ ImageThere(i)
    /\ images' = [images EXCEPT ![run[i].image].fed = TRUE]
    /\ To(i, "waitImage")
    /\ UNCHANGED networks

\* The export or the upload fails: the image is deleted, if that succeeds.
UploadFails(i) ==
    /\ At(i, "upload")
    /\ Costs
    /\ run' = [run EXCEPT ![i] = NoRun("failed")]
    /\ images' = [images EXCEPT ![run[i].image] = NoImage]
    /\ UNCHANGED networks

\* Only the owner marks the image; it must have been normalized.
MarkImage(i) ==
    LET m == run[i].image
    IN  /\ At(i, "markImage") /\ ImageThere(i)
        /\ \/ /\ plan[i].agent /\ images[m].label # "match"
              /\ Stops(i, "refused")
              /\ UNCHANGED images
           \/ /\ plan[i].agent => images[m].label = "match"
              /\ images' = [images EXCEPT ![m].agent =
                                @ \/ (plan[i].agent /\ images[m].owner = plan[i].owner)]
              /\ To(i, "shareImage")
        /\ UNCHANGED networks

\* As if only the configured projects were given the image.
WantedConfigured(i) == plan[i].share

\* The deployment's project is added when the image is another project's.
Wanted(i) ==
    plan[i].share \cup
      (IF plan[i].owner # "home" /\ "organization" \notin plan[i].share THEN {"home"} ELSE {})

ShareImage(i) ==
    /\ At(i, "shareImage") /\ ImageThere(i)
    /\ images' = [images EXCEPT ![run[i].image].shared = @ \cup Wanted(i)]
    /\ IF images[run[i].image].owner = "home"
       THEN To(i, After(i, "image"))
       ELSE To(i, "waitVisible")
    /\ UNCHANGED networks

WaitVisible(i) ==
    /\ At(i, "waitVisible")
    /\ run[i].image \in Listed("home")
    /\ images[run[i].image].status = "available"
    /\ To(i, After(i, "image"))
    /\ UNCHANGED imageVars

\* Nobody feeds an image that a run waits for and that has not all its data.
Orphan(m) ==
    /\ images[m].status = "creating" /\ ~images[m].fed
    /\ \A j \in Installers : run[j].image = m => run[j].at # "upload"

\* Such a wait ends with its deadline, as the one for an image that is gone does;
\* of the calls that name one the first fails.
Deadline(i) ==
    /\ \/ At(i, "waitImage") /\ Orphan(run[i].image)
       \/ /\ run[i].at \in {"upload", "markImage", "shareImage", "waitVisible", "makeServer"}
          /\ ~ImageThere(i)
    /\ Stops(i, "failed")
    /\ UNCHANGED imageVars
-----------------------------------------------------------------------------
(* STACKIT.                                                                *)

ImageReady(m) ==
    /\ images[m].status = "creating" /\ images[m].fed
    /\ images' = [images EXCEPT ![m].status = "available", ![m].old = FALSE]
    /\ UNCHANGED <<plan, run, credit, networks>>

\* Half an hour without a change of updatedAt, also while data are on their way
\* or are processed.
ImageAges(m) ==
    /\ images[m].status = "creating" /\ ~images[m].old
    /\ images' = [images EXCEPT ![m].old = TRUE]
    /\ UNCHANGED <<plan, run, credit, networks>>
=============================================================================
