SPECIFICATION BoundedSpec
CONSTANTS
    main = main
    feature = feature
    feature_x = feature_x
    Name = {main, feature, feature_x}
    Main = main
    DefaultBranch = feature
    Under <- Nested
    NumRoots = 2
    MaxCommits = 3
    FsyncChoices = {0, 2}
    MaxCrashes = 1
INVARIANTS TypeOK HeadUsable PublishKeepsHistory HeadNeverDangles RefsReadable RefsTornByKills
