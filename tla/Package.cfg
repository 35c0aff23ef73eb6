CONSTANTS
    p1 = p1
    p2 = p2
    Pids = {p1, p2}
    MaxLinks = 5
    Starts <- MCStarts
    Ignored <- MCIgnored
    Redirected <- MCRedirected
    PackageDir <- MCPackageDir
SPECIFICATION Spec
INVARIANT TypeOK
 
 
 
 
SYMMETRY Symmetry
