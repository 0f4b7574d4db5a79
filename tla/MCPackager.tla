------------------------------ MODULE MCPackager ------------------------------
EXTENDS Packager, TLC

\* Projects with a plugin: a plain one, one with every kind of entry that is
\* copied or passed over, and ones whose copy fails.
MCProjects ==
    { {"code", "plugin"},
      {"code", "plugin", "svg", "secret", "output", "link", "vendor_link", "path_repository"},
      {"code", "plugin", "manifest"},
      {"code", "plugin", "stray_link"},
      {"code", "plugin", "output_link"},
      {"code"} }

\* The default, a single format, and the installers of each system.
MCRequests ==
    { {"portable", "directory"}, {"directory"}, {"deb", "appimage", "rpm"},
      {"portable", "native", "pkg"}, {"native", "msi"} }

MCSymmetry == Permutations(Builds)
==============================================================================
