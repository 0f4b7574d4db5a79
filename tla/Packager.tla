------------------------------- MODULE Packager -------------------------------
(***************************************************************************)
(* The distribution builds of packager.rs: what is copied into a bundle,   *)
(* its integrity manifest, the artifacts staged from it, and how they      *)
(* replace the ones of earlier builds.  Several builds of one version may  *)
(* run at once, write to the same output directory, fail at any step and   *)
(* be killed.  verify_bundle is the updater's side of the manifest.        *)
(***************************************************************************)
EXTENDS Naturals, Sequences

CONSTANTS
    Builds,         \* the builds that are started
    Projects,       \* the contents a project may have
    Requests,       \* the formats a build may ask for
    MaxFailures     \* steps that fail and builds that are killed

Systems == {"linux", "macos", "windows"}
Entries == {"code", "manifest", "secret", "plugin", "output", "link", "vendor_link", "stray_link", "output_link", "svg", "path_repository"}
Formats == {"portable", "deb", "native", "appimage", "rpm", "pkg", "msi", "directory"}

\* Whatever else it has, a project has code to run.
ASSUME PackagerAssumption ==
    /\ MaxFailures \in Nat
    /\ Projects \subseteq SUBSET Entries /\ Requests \subseteq SUBSET Formats
    /\ \A es \in Projects : "code" \in es

Earlier == "earlier"    \* the maker of what is in the output directory at first
None == [by |-> "nobody"]

VARIABLES
    os,         \* the system all of this runs on
    project,    \* what is in the project directory
    build,      \* build -> its options and where it is
    out,        \* format -> what is at the destination of the artifact
    left

packager_vars == <<os, project, build, out, left>>

-----------------------------------------------------------------------------
(* The copy of the project. *)

\* excluded_path: .env and its like.
excluded_path(e) == e = "secret"

\* copy_directory leaves out what is excluded and the output directory itself.
copy_directory(es) == {e \in es : ~excluded_path(e) /\ e # "output"}

\* copy_project_symlink fails on a link out of the project, unless it is one of
\* Composer's below vendor, and on a link into the output directory.
copy_project_symlink(es) == es \cap {"stray_link", "output_link"} = {}

\* sanitize_composer_metadata takes the path repositories of the developer's
\* machine out of composer.json and composer.lock.
sanitize_composer_metadata(es) == es \ {"path_repository"}

\* The copy of the project, and the Rust plugins that have to be in it.
CopyFails(es) == ~copy_project_symlink(es) \/ "plugin" \notin copy_directory(es)

-----------------------------------------------------------------------------
(* The bundle: its files, which of them were signed, and its manifest.        *)

copy_runtime_libraries == {"libraries"}
write_launcher == {"launcher"}
write_php_ini == {"php.ini"}
bundle_icon_path == {"icon"}
desktop_entry == {"desktop.in"}
write_portable_installer == {"install.sh"}
write_portable_uninstaller == {"uninstall.sh"}

App == sanitize_composer_metadata(copy_directory(project))
Binaries == {"host", "pam"} \cup write_launcher \cup copy_runtime_libraries

\* Everything materialize_bundle puts into the bundle before it signs it.
Materialized ==
    App \cup Binaries \cup write_php_ini \cup bundle_icon_path
    \cup (IF os = "linux" THEN desktop_entry \cup write_portable_installer \cup write_portable_uninstaller ELSE {})

\* sign_windows_bundle and sign_macos_bundle_binaries: bin and lib.  On Linux
\* the launcher is a script, and nothing is signed.
Signed(sign) == IF sign /\ os # "linux" THEN Binaries ELSE {}

\* bundle_files of the packager passes over every file named manifest.json,
\* bundle_files of the updater only over the one of the bundle.
packager_bundle_files(files) == files \ {"manifest", "manifest.json"}
updater_bundle_files(files) == files \ {"manifest.json"}

\* The digest of a file stands for its contents: who built it, and whether it
\* has been signed.
Digests(files, b, signed) == {[file |-> f, by |-> b, signed |-> f \in signed] : f \in files}

\* write_bundle_manifest, the last thing that is put into the bundle.
write_bundle_manifest_unsigned(files, b, signed) == Digests(packager_bundle_files(files), b, {})

write_bundle_manifest(files, b, signed) == Digests(packager_bundle_files(files), b, signed)

Bundle(b) ==
    LET signed == Signed(build[b].sign)
    IN  [by |-> b, files |-> Materialized \cup {"manifest.json"}, signed |-> signed,
         listed |-> write_bundle_manifest(Materialized, b, signed)]

\* verify_bundle: every file is listed with its digest, and nothing is missing.
verify_bundle(bundle) == Digests(updater_bundle_files(bundle.files), bundle.by, bundle.signed) = bundle.listed

-----------------------------------------------------------------------------
(* The artifacts: what of the bundle is in them, what is added to it, and      *)
(* whether the artifact itself is signed, where its format can be.            *)

Artifact(b, format, files, sealed) ==
    [by |-> b, format |-> format, bundle |-> build[b].bundle, files |-> files, sealed |-> sealed]

All(b) == build[b].bundle.files

\* hardlink_or_copy of the directories a Debian package is made of.
create_debian_package_bare(b) ==
    Artifact(b, "deb", App \cup Binaries \cup {"manifest.json", "desktop", "icon", "link", "control"}, FALSE)

create_debian_package(b) ==
    Artifact(b, "deb", App \cup Binaries \cup {"php.ini", "manifest.json", "desktop", "icon", "link", "control"}, FALSE)

create_rpm_package(b) == Artifact(b, "rpm", All(b) \cup {"desktop", "icon", "link", "spec"}, FALSE)
create_appimage_package(b) == Artifact(b, "appimage", All(b) \cup {"desktop", "icon", "link", "AppRun"}, FALSE)

\* The application of macOS, made once for all the formats that contain it.
macos_info_plist == {"Info.plist"}
create_macos_application(b) == All(b) \cup macos_info_plist \cup {"icon", "start"}
create_macos_package(b) == Artifact(b, "native", create_macos_application(b), build[b].sign)
create_pkg_package(b) == Artifact(b, "pkg", create_macos_application(b), build[b].sign)

create_windows_assets == {"assets"}
windows_appx_manifest == {"AppxManifest.xml"}
create_windows_package(b) ==
    Artifact(b, "native", All(b) \cup create_windows_assets \cup windows_appx_manifest, build[b].sign)
create_msi_package(b) == Artifact(b, "msi", All(b), build[b].sign)

create_native_package(b) == IF os = "macos" THEN create_macos_package(b) ELSE create_windows_package(b)

create_portable_archive(b) ==
    Artifact(b, "portable", IF os = "macos" THEN create_macos_application(b) ELSE All(b), FALSE)

Create(b, format) ==
    CASE format = "portable" -> create_portable_archive(b)
      [] format = "deb" -> create_debian_package(b)
      [] format = "native" -> create_native_package(b)
      [] format = "appimage" -> create_appimage_package(b)
      [] format = "rpm" -> create_rpm_package(b)
      [] format = "pkg" -> create_pkg_package(b)
      [] format = "msi" -> create_msi_package(b)
      [] OTHER -> Artifact(b, "directory", All(b), FALSE)

\* create_windows_package takes a PNG icon only.
CannotCreate(format) == format = "native" /\ os = "windows" /\ "svg" \in project

\* The order of build_with_binaries and stage_extended_installers.
Order == <<"portable", "deb", "native", "appimage", "rpm", "pkg", "msi", "directory">>
\* The order of ArtifactDestinations::paths.
Destinations == <<"directory", "portable", "deb", "native", "appimage", "rpm", "pkg", "msi">>

\* The one of some formats whose turn it is in an order.
Foremost(order, formats) ==
    order[CHOOSE i \in DOMAIN order : /\ order[i] \in formats
                                      /\ \A j \in 1..(i - 1) : order[j] \notin formats]

\* validate_platform_formats
validate_platform_formats(formats, sign) ==
    /\ formats \cap {"deb", "appimage", "rpm"} # {} => os = "linux"
    /\ "native" \in formats => os # "linux"
    /\ "pkg" \in formats => os = "macos"
    /\ "msi" \in formats => os = "windows"
    /\ sign => os # "linux"

-----------------------------------------------------------------------------
PackagerInit ==
    /\ os \in Systems
    /\ project \in Projects
    /\ build = [b \in Builds |-> [pc |-> "new"]]
    /\ \E old \in {{}, {"portable"}, {"portable", "directory"}} :
        out = [f \in Formats |-> IF f \in old THEN [by |-> Earlier, format |-> f] ELSE None]
    /\ left = MaxFailures

BuildAt(b, pc) == build[b].pc = pc
BuildGoes(b, pc) == build' = [build EXCEPT ![b] = [@ EXCEPT !.pc = pc]]
Running(b) == build[b].pc \notin {"new", "done", "failed", "killed"}

\* An error of any step: the workspace goes with the build (BuildWorkspace::drop).
Fails(b) == build' = [build EXCEPT ![b] = [@ EXCEPT !.pc = "failed", !.staged = {}]]
BuildFault == left > 0 /\ left' = left - 1

\* BuildOptions::parse and build: the options, and what is refused at once.
parse(b) ==
    /\ BuildAt(b, "new")
    /\ \E formats \in Requests, force, sign \in BOOLEAN :
        /\ validate_platform_formats(formats, sign)
        /\ build' = [build EXCEPT ![b] = [pc |-> "check", formats |-> formats, force |-> force, sign |-> sign,
                                          bundle |-> None, staged |-> {}, todo |-> {}]]
    /\ UNCHANGED <<os, project, out, left>>

\* ensure_available, then the workspace.
Available(b) == \A f \in build[b].formats : out[f] = None

ensure_available_removes(b) ==
    /\ BuildAt(b, "check")
    /\ IF build[b].force \/ Available(b)
       THEN /\ BuildGoes(b, "bundle")
            /\ out' = IF build[b].force THEN [f \in Formats |-> IF f \in build[b].formats THEN None ELSE out[f]] ELSE out
       ELSE Fails(b) /\ UNCHANGED out
    /\ UNCHANGED <<os, project, left>>

ensure_available(b) ==
    /\ BuildAt(b, "check")
    /\ IF build[b].force \/ Available(b)
       THEN BuildGoes(b, "bundle")
       ELSE Fails(b)
    /\ UNCHANGED <<os, project, out, left>>

materialize_bundle(b) ==
    /\ BuildAt(b, "bundle")
    /\ IF CopyFails(project) THEN Fails(b)
       ELSE build' = [build EXCEPT ![b] = [@ EXCEPT !.pc = "stage", !.bundle = Bundle(b),
                                                    !.todo = build[b].formats]]
    /\ UNCHANGED <<os, project, out, left>>

\* One format after the other is staged in the workspace.
Stage(b) ==
    LET f == Foremost(Order, build[b].todo) IN
    /\ BuildAt(b, "stage")
    /\ IF build[b].todo # {} /\ CannotCreate(f) THEN Fails(b)
       ELSE IF build[b].todo # {}
       THEN build' = [build EXCEPT ![b] = [@ EXCEPT !.staged = build[b].staged \cup {Create(b, f)},
                                                    !.todo = build[b].todo \ {f}]]
       ELSE build' = [build EXCEPT ![b] = [@ EXCEPT !.pc = "remove", !.todo = build[b].formats]]
    /\ UNCHANGED <<os, project, out, left>>

\* remove_existing, one destination after the other, when forced.
remove_existing(b) ==
    LET f == Foremost(Destinations, build[b].todo) IN
    /\ BuildAt(b, "remove")
    /\ IF build[b].force /\ build[b].todo # {}
       THEN /\ out' = [out EXCEPT ![f] = None]
            /\ build' = [build EXCEPT ![b] = [@ EXCEPT !.todo = build[b].todo \ {f}]]
       ELSE /\ build' = [build EXCEPT ![b] = [@ EXCEPT !.pc = "publish", !.todo = build[b].formats]]
            /\ UNCHANGED out
    /\ UNCHANGED <<os, project, left>>

\* fs::rename replaces a file, and refuses to replace a directory.
Renames(b, f) == f = "directory" => out[f] = None

rename(b) ==
    LET f == Foremost(Order, build[b].todo) IN
    /\ BuildAt(b, "publish") /\ build[b].todo # {}
    /\ IF Renames(b, f)
       THEN /\ out' = [out EXCEPT ![f] = CHOOSE a \in build[b].staged : a.format = f]
            /\ build' = [build EXCEPT ![b] = [@ EXCEPT !.todo = build[b].todo \ {f},
                                                       !.staged = {a \in build[b].staged : a.format # f}]]
       ELSE Fails(b) /\ UNCHANGED out
    /\ UNCHANGED <<os, project, left>>

Succeed(b) ==
    /\ BuildAt(b, "publish") /\ build[b].todo = {}
    /\ BuildGoes(b, "done")
    /\ UNCHANGED <<os, project, out, left>>

\* A tool that is missing, a file that cannot be read or written.
StepFails(b) ==
    /\ Running(b)
    /\ Fails(b) /\ BuildFault
    /\ UNCHANGED <<os, project, out>>

\* The build is killed: its workspace stays in the output directory.
Killed(b) ==
    /\ Running(b)
    /\ BuildGoes(b, "killed") /\ BuildFault
    /\ UNCHANGED <<os, project, out>>

PackagerNext ==
    \E b \in Builds :
        \/ parse(b) \/ ensure_available(b) \/ materialize_bundle(b) \/ Stage(b)
        \/ remove_existing(b) \/ rename(b) \/ Succeed(b) \/ StepFails(b) \/ Killed(b)

PackagerSpec == PackagerInit /\ [][PackagerNext]_packager_vars

-----------------------------------------------------------------------------
(* Properties. *)

Made(f) == out[f] # None /\ out[f].by # Earlier

\* What the updater finds after it has unpacked an artifact.
Unpacked(a) == [a.bundle EXCEPT !.files = a.files \cap a.bundle.files]

\* What a build published can be installed by the updater, which compares
\* every file with the bundle's manifest, as long as the application has no
\* manifest.json of its own: the manifest was written after the last file had
\* been put into the bundle and signed (materialize_bundle, verify_bundle).
PublishedVerifies ==
    \A f \in {"portable", "directory"} :
        Made(f) /\ "manifest" \notin project => verify_bundle(Unpacked(out[f]))

\* Every published package holds what the application's start needs, its
\* plugins included and nothing that was excluded, and is signed as it was
\* asked for (the create functions, materialize_bundle).
PackagesAreWhole ==
    \A f \in Formats : Made(f) =>
        /\ Binaries \cup {"php.ini", "code", "plugin"} \subseteq out[f].files
        /\ out[f].files \cap {"secret", "output", "path_repository", "stray_link", "output_link"} = {}
        /\ build[out[f].by].sign =>
            out[f].bundle.signed = Binaries /\ (f \in {"native", "pkg", "msi"} => out[f].sealed)

\* The artifacts of earlier builds are removed only when every new one is
\* ready: a build that fails on the way to it leaves them alone
\* (build_with_binaries).
RemovedOnlyWhenReady ==
    [][\A f \in Formats : out[f] # None /\ out'[f] = None =>
          \E b \in Builds : build[b] # build'[b] /\ build[b].force
                            /\ {a.format : a \in build[b].staged} = build[b].formats]_packager_vars

==============================================================================
